---------------------------- MODULE Spec2Model ----------------------------
(***************************************************************************)
(* A model of the ps_agents-assembly translator: the parsing state machine    *)
(* (aasm/parsing/state.py, parsing/parse.py), the graph emitter            *)
(* (aasm/generating/python_graph.py) together with the run-time behaviour  *)
(* of the generate_graph_structure function it emits, and the list         *)
(* instructions emitted by aasm/generating/python_spade.py.                *)
(*                                                                         *)
(* Each subsystem has its own group of variables and its own               *)
(* specification; a specification leaves the other groups parked.          *)
(***************************************************************************)
EXTENDS Integers, Sequences, FiniteSets, TLC

VARIABLES
    \* ---- parsing state machine (State, parse_lines) ----
    in_agent, in_message, in_behaviour, in_action, in_graph,
    line_num,      \* State.line_num
    outcome,       \* "parsing", "panic" (PanicException raised), "parsed" (ParsedData returned)
    reason,        \* the reason of the raised PanicException, "" if none
    ended,         \* TRUE once get_parsed_data was called (input exhausted)
    tokens,        \* the token list tokens_from_lines yielded last, <<>> for a line it skipped
    invoked,       \* the handlers parse_lines called for it
    ps_agents,        \* State.agents: the items of the dict in insertion order
    code,          \* TRUE once get_spade_code has returned a Code
    \* ---- statistical graph: the IR and a run of the emitted function ----
    sgraph,          \* the StatisticalGraph handed to PythonGraph
    st_pc,           \* "start", "loop", "done", "error" (an exception was raised)
    st_jids,         \* jids
    st_agents,       \* ps_agents, the list the function returns
    next_agent_idx,  \* next_agent_idx
    st_type,         \* which emitted "for _ in range(_num_X)" loop is running
    st_iter,         \* iterations of that loop done so far
    st_drawn,        \* num_connections as drawn in the last iteration
    num_connections, \* num_connections after the clamp in the last iteration
    \* ---- matrix graph: the IR and a run of the emitted function ----
    mgraph,          \* the MatrixGraph handed to PythonGraph
    mx_pc,           \* "start", "base", "shift", "done"
    mx_jids,         \* jids
    mx_agents,       \* ps_agents, the list the function returns
    indx_sets,       \* indx_sets (its lists grow while the function runs)
    base_agent_index,
    shift,           \* the loop variable of "for shift in range(scale_factor)"
    \* ---- code generation: get_spade_code after parsing ----
    em_agents,        \* parsed.ps_agents
    em_graph,         \* parsed.graph
    em_pc,            \* "spade" (PythonSpadeCode runs), "graph" (PythonGraph runs), "done"
    em_ops,           \* the calls the running emitter has still to make
    indent,           \* PythonCode.indent of the running emitter
    code_lines,       \* PythonCode.code_lines of the running emitter
    agent_code_lines, \* the code_lines of PythonSpadeCode, once it has run
    \* ---- the emitted list statements, run by the generated agent ----
    statement,        \* "Subset" or "RemoveNElements"
    objects,          \* the list elements on the heap: object id -> [kind, value]
    list_objects,     \* the list objects on the heap: list id -> sequence of object ids
    from_list,        \* Subset: the list object the source name is bound to
    to_list,          \* Subset: the list object the destination name is bound to
    arg1,             \* RemoveNElements: the list object the list name is bound to
    num_halves,       \* twice the number argument (so that n + 0.5 is an input)
    elems_in,         \* the elements of the source list when the statement starts
    taken,            \* the object the message name of a later Set is bound to, 0 if none
    rt_pc,            \* "start", "shuffled", "done", "taken", "returned", "mutated"
    \* ---- one activation of an emitted behaviour class ----
    rn_behaviour,     \* the Behaviour the class was emitted for
    rn_emitter,       \* the class that emitted it: "PythonSpadeCode" or "SpadeCode"
    rn_other,         \* how often another behaviour of the agent ran during the activation
    rn_code,          \* the emitted lines of the class
    rn_status,        \* "idle", "running", "done", "error" (an exception was raised)
    rn_pc,            \* the line to run next
    rn_frames,        \* the call stack: [ret, base] per function entered
    rn_agent,         \* the attributes of self.agent: name -> value
    rn_start,         \* the attributes of self.agent when run was called
    rn_rcv,           \* rcv of run
    rn_send,          \* send of the running action
    rn_receiver,      \* receiver of the running for loop
    rn_for,           \* [line, idx] of the running for loop, line 0 if none
    rn_sent,          \* the messages handed to self.send, in order
    rn_calls,         \* the action calls made by run, in order: [name, rcv]
    rn_receives,      \* the calls of self.receive made by run
    \* ---- the message templates of the State ----
    messages,         \* State.messages: the dict as its items in insertion order
    heap,             \* the Message objects and their float_params dicts: id -> object
    added,            \* the calls of add_message so far: [key, type, performative, float_params]
    instances,        \* the objects get_message_instance has returned, in order
    \* ---- tokens_from_lines ----
    tk_lines,         \* self.lines
    tk_num,           \* self.line_num
    tk_line,          \* the line of self.lines the loop is at
    tk_tokens,        \* tokens, as built for it
    tk_yielded,       \* TRUE if the generator yielded them
    tk_map,           \* self.preprocessor's map of processed line numbers
    tk_place,         \* place of the PanicException raised, NoPlace if none
    \* ---- get_spade_code on a heap of list objects ----
    ir_start,         \* the list objects of the ParsedData before the first call
    ir_heap,          \* the list objects now: those of the ParsedData first
    ir_locals,        \* what the locals values, percentages, adj_indx are bound to
    ir_j,             \* position of "for enum_value in enum_param.enum_values"
    ir_k,             \* position of "for agent in graph.agents"
    ir_pc,            \* the statement the call is at
    ir_lines,         \* the code lines of the call so far
    ir_codes          \* the code lines each finished call returned

parseVars == <<in_agent, in_message, in_behaviour, in_action, in_graph,
               line_num, outcome, reason, ended, tokens, invoked, ps_agents, code>>

statVars == <<sgraph, st_pc, st_jids, st_agents, next_agent_idx, st_type,
              st_iter, st_drawn, num_connections>>

matVars == <<mgraph, mx_pc, mx_jids, mx_agents, indx_sets, base_agent_index, shift>>

emitVars == <<em_agents, em_graph, em_pc, em_ops, indent, code_lines, agent_code_lines>>

listVars == <<statement, objects, list_objects, from_list, to_list, arg1, taken,
              num_halves, elems_in, rt_pc>>

runVars == <<rn_behaviour, rn_emitter, rn_other, rn_code, rn_start, rn_status, rn_pc, rn_frames, rn_agent, rn_rcv,
             rn_send, rn_receiver, rn_for, rn_sent, rn_calls, rn_receives>>

stateVars == <<messages, heap, added, instances>>

tokVars == <<tk_lines, tk_num, tk_line, tk_tokens, tk_yielded, tk_map, tk_place>>

irVars == <<ir_start, ir_heap, ir_locals, ir_j, ir_k, ir_pc, ir_lines, ir_codes>>

vars == <<parseVars, statVars, matVars, emitVars, listVars, runVars, stateVars, tokVars, irVars>>

\* What the actions of one group leave alone
notParseVars == <<statVars, matVars, emitVars, listVars, runVars, stateVars, tokVars, irVars>>
notStatVars == <<parseVars, matVars, emitVars, listVars, runVars, stateVars, tokVars, irVars>>
notMatVars == <<parseVars, statVars, emitVars, listVars, runVars, stateVars, tokVars, irVars>>
notEmitVars == <<parseVars, statVars, matVars, listVars, runVars, stateVars, tokVars, irVars>>
notListVars == <<parseVars, statVars, matVars, emitVars, runVars, stateVars, tokVars, irVars>>
notStateVars == <<parseVars, statVars, matVars, emitVars, listVars, runVars, tokVars, irVars>>
notTokVars == <<parseVars, statVars, matVars, emitVars, listVars, runVars, stateVars, irVars>>
notIrVars == <<parseVars, statVars, matVars, emitVars, listVars, runVars, stateVars, tokVars>>
notRunVars == <<parseVars, statVars, matVars, emitVars, listVars, stateVars, tokVars, irVars>>

(***************************************************************************)
(* Bounds                                                                  *)
(***************************************************************************)
MaxLines == 5
MaxPop == 3        \* population up to which connections are drawn at random
MaxTypes == 2      \* agent types of a matrix graph
MaxScale == 3      \* scale of a matrix graph
MaxLen == 3        \* length of a list a list statement is run on
MaxEnumValues == 2 \* values of an enum parameter
MaxChars == 4      \* characters of a line
MaxMessages == 3   \* Message objects created (templates and instances)

(***************************************************************************)
(* Helpers                                                                 *)
(***************************************************************************)
Range(s) == {s[i] : i \in 1..Len(s)}

(***************************************************************************)
(* Parsing: token lists the model feeds to parse_lines.  The empty list    *)
(* stands for a blank or comment-only line (tokens_from_lines counts the   *)
(* line and yields nothing).                                               *)
(***************************************************************************)
Opcodes ==
    { "AGENT", "EAGENT", "MESSAGE", "EMESSAGE", "PRM", "BEHAV", "EBEHAV",
      "ACTION", "EACTION", "DECL", "EBLOCK",
      "IEQ", "INEQ", "WEQ", "WNEQ",
      "IGT", "IGTEQ", "ILT", "ILTEQ", "WGT", "WGTEQ", "WLT", "WLTEQ",
      "ADD", "SUBT", "MULT", "DIV", "ADDE", "REME", "LEN", "CLR", "IN", "NIN",
      "SEND", "SUBS", "SET", "REMEN", "RAND", "ROUND" }

\* Opcodes the match statement of parse_lines has no case for.
OtherOpcodes == {"GRAPH", "EGRAPH", "FOO"}

\* The arguments that follow the opcode of a line.
ArgLists ==
    { <<>>, <<"a">>, <<"a", "a">>, <<"a", "a", "a">>, <<"a", "a", "a", "a">>, <<"b">> }

LineTokens ==
    {<<>>} \cup {<<op>> \o args : op \in Opcodes \cup OtherOpcodes, args \in ArgLists}

UnorderedCond == {"IEQ", "INEQ", "WEQ", "WNEQ"}
OrderedCond == {"IGT", "IGTEQ", "ILT", "ILTEQ", "WGT", "WGTEQ", "WLT", "WLTEQ"}
MathOps == {"ADD", "SUBT", "MULT", "DIV"}

\* The match statement of parse_lines: the handler the token list selects,
\* "panic" for the default case.  t is a non-empty token list.
Dispatch_IgnoresArity(t) ==
    LET op == t[1]
    IN  IF op = "AGENT" THEN (IF Len(t) = 2 THEN "op_AGENT" ELSE "panic")
        ELSE IF op \in {"EAGENT", "MESSAGE", "EMESSAGE", "BEHAV", "EBEHAV", "ACTION",
                   "EACTION", "DECL", "EBLOCK", "LEN", "CLR", "SEND", "SUBS", "SET",
                   "REMEN", "RAND", "ROUND"} THEN "op_" \o op
        ELSE IF op = "PRM" THEN "op_message_PRM"
        ELSE IF op \in UnorderedCond THEN "handle_unordered_conditional_statement"
        ELSE IF op \in OrderedCond THEN "handle_ordered_conditional_statement"
        ELSE IF op \in MathOps THEN "handle_math_statement"
        ELSE IF op \in {"ADDE", "REME"} THEN "handle_list_modification"
        ELSE IF op \in {"IN", "NIN"} THEN "handle_list_inclusion"
        ELSE "panic"

Dispatch(t) ==
    LET n == Len(t)
        op == t[1]
    IN  IF op = "AGENT" /\ n = 2 THEN "op_AGENT"
        ELSE IF op = "EAGENT" /\ n = 1 THEN "op_EAGENT"
        ELSE IF op = "MESSAGE" /\ n = 3 THEN "op_MESSAGE"
        ELSE IF op = "EMESSAGE" /\ n = 1 THEN "op_EMESSAGE"
        ELSE IF op = "PRM" /\ n = 3 THEN "op_message_PRM"
        ELSE IF op = "PRM" /\ n >= 3 THEN "op_agent_PRM"
        ELSE IF op = "BEHAV" /\ n >= 3 THEN "op_BEHAV"
        ELSE IF op = "EBEHAV" /\ n = 1 THEN "op_EBEHAV"
        ELSE IF op = "ACTION" /\ n >= 3 THEN "op_ACTION"
        ELSE IF op = "EACTION" /\ n = 1 THEN "op_EACTION"
        ELSE IF op = "DECL" /\ n = 3 THEN "op_DECL"
        ELSE IF op = "EBLOCK" /\ n = 1 THEN "op_EBLOCK"
        ELSE IF op \in UnorderedCond /\ n = 3 THEN "handle_unordered_conditional_statement"
        ELSE IF op \in OrderedCond /\ n = 3 THEN "handle_ordered_conditional_statement"
        ELSE IF op \in MathOps /\ n = 3 THEN "handle_math_statement"
        ELSE IF op \in {"ADDE", "REME"} /\ n = 3 THEN "handle_list_modification"
        ELSE IF op = "LEN" /\ n = 3 THEN "op_LEN"
        ELSE IF op = "CLR" /\ n = 2 THEN "op_CLR"
        ELSE IF op \in {"IN", "NIN"} /\ n = 3 THEN "handle_list_inclusion"
        ELSE IF op = "SEND" /\ n = 2 THEN "op_SEND"
        ELSE IF op = "SUBS" /\ n = 4 THEN "op_SUBS"
        ELSE IF op = "SET" /\ n = 3 THEN "op_SET"
        ELSE IF op = "REMEN" /\ n = 3 THEN "op_REMEN"
        ELSE IF op = "RAND" /\ n >= 4 THEN "op_RAND"
        ELSE IF op = "ROUND" /\ n = 2 THEN "op_ROUND"
        ELSE "panic"

\* The handler parse_lines calls for the token list t, "panic" if none.
Handler(t) == Dispatch(t)

\* State.panic: raises PanicException; nothing of the State changes.
Panic_Returns(msg) ==
    /\ reason' = msg
    /\ UNCHANGED <<in_agent, in_message, in_behaviour, in_action, in_graph, ended,
                   ps_agents, code, outcome>>

Panic(msg) ==
    /\ outcome' = "panic"
    /\ reason' = msg
    /\ UNCHANGED <<in_agent, in_message, in_behaviour, in_action, in_graph, ended,
                   ps_agents, code>>

\* tokens_from_lines: the line counter advances for every processed line.
CountLine ==
    /\ outcome = "parsing"
    /\ line_num < MaxLines
    /\ line_num' = line_num + 1
    /\ UNCHANGED notParseVars

NoContextOpen == ~in_agent /\ ~in_message /\ ~in_graph

Keep == UNCHANGED <<outcome, reason, ended, code>>

\* State.require, followed by the rest of the handler that called it.
Require(expr, msg_on_error, rest) ==
    IF ~expr THEN Panic(msg_on_error) ELSE rest

\* The case of the match statement that the token list t selects calls its
\* handler.
Invoke(t) ==
    /\ tokens' = t
    /\ invoked' = <<Handler(t)>>

\* The Python repr of a list of str
RECURSIVE ReprItems(_)
ReprItems(t) ==
    IF Len(t) = 0 THEN ""
    ELSE IF Len(t) = 1 THEN "'" \o t[1] \o "'"
    ELSE "'" \o t[1] \o "', " \o ReprItems(Tail(t))

Repr(t) == "[" \o ReprItems(t) \o "]"

\* State.agent_exists
AgentExists(name) == \E i \in 1..Len(ps_agents) : ps_agents[i].key = name

\* State.add_agent(agent): self.ps_agents[agent.name] = agent.  The agent object
\* is held as the line that declared it.
AddAgent(name, agent) ==
    IF \E i \in 1..Len(ps_agents) : ps_agents[i].key = name
        THEN [i \in 1..Len(ps_agents) |->
                 IF ps_agents[i].key = name THEN [key |-> name, value |-> agent] ELSE ps_agents[i]]
        ELSE Append(ps_agents, [key |-> name, value |-> agent])

BlankLine ==
    /\ CountLine
    /\ <<>> \in LineTokens
    /\ tokens' = <<>>
    /\ invoked' = <<>>
    /\ UNCHANGED <<in_agent, in_message, in_behaviour, in_action, in_graph, ps_agents>>
    /\ Keep

\* op_AGENT: an agent is declared outside every context, under a name no
\* declared agent has.
op_AGENT_NoDuplicateCheck ==
    /\ CountLine
    /\ \E t \in LineTokens \ {<<>>} :
           /\ Handler(t) = "op_AGENT"
           /\ Invoke(t)
           /\ Require(NoContextOpen, "Cannot define agents inside other agents, messages or graphs",
                  /\ in_agent' = TRUE
                  /\ ps_agents' = AddAgent(t[2], line_num')
                  /\ UNCHANGED <<in_message, in_behaviour, in_action, in_graph>>
                  /\ Keep)

op_AGENT ==
    /\ CountLine
    /\ \E t \in LineTokens \ {<<>>} :
           /\ Handler(t) = "op_AGENT"
           /\ Invoke(t)
           /\ Require(NoContextOpen, "Cannot define agents inside other agents, messages or graphs",
                  Require(~AgentExists(t[2]), "Agent " \o t[2] \o " already exists in the current environment",
                      /\ in_agent' = TRUE
                      /\ ps_agents' = AddAgent(t[2], line_num')
                      /\ UNCHANGED <<in_message, in_behaviour, in_action, in_graph>>
                      /\ Keep))

op_EAGENT ==
    /\ CountLine
    /\ \E t \in LineTokens \ {<<>>} :
           /\ Handler(t) = "op_EAGENT"
           /\ Invoke(t)
           /\ Require(in_agent /\ ~in_behaviour, "Cannot end undefined agent or agent with open behaviour",
                      /\ in_agent' = FALSE
                      /\ UNCHANGED <<in_message, in_behaviour, in_action, in_graph, ps_agents>>
                      /\ Keep)

op_MESSAGE ==
    /\ CountLine
    /\ \E t \in LineTokens \ {<<>>} :
           /\ Handler(t) = "op_MESSAGE"
           /\ Invoke(t)
           /\ Require(NoContextOpen, "Cannot define messages inside other messages, ps_agents or graphs",
                      /\ in_message' = TRUE
                      /\ UNCHANGED <<in_agent, in_behaviour, in_action, in_graph, ps_agents>>
                      /\ Keep)

op_EMESSAGE ==
    /\ CountLine
    /\ \E t \in LineTokens \ {<<>>} :
           /\ Handler(t) = "op_EMESSAGE"
           /\ Invoke(t)
           /\ Require(in_message, "Not inside any message",
                      /\ in_message' = FALSE
                      /\ UNCHANGED <<in_agent, in_behaviour, in_action, in_graph, ps_agents>>
                      /\ Keep)

op_BEHAV ==
    /\ CountLine
    /\ \E t \in LineTokens \ {<<>>} :
           /\ Handler(t) = "op_BEHAV"
           /\ Invoke(t)
           /\ Require(in_agent /\ ~in_behaviour, "Cannot define behaviours outside ps_agents or inside other behaviours",
                      /\ in_behaviour' = TRUE
                      /\ UNCHANGED <<in_agent, in_message, in_action, in_graph, ps_agents>>
                      /\ Keep)

op_EBEHAV ==
    /\ CountLine
    /\ \E t \in LineTokens \ {<<>>} :
           /\ Handler(t) = "op_EBEHAV"
           /\ Invoke(t)
           /\ Require(in_behaviour /\ ~in_action, "Not inside any behaviour or an action is still open",
                      /\ in_behaviour' = FALSE
                      /\ UNCHANGED <<in_agent, in_message, in_action, in_graph, ps_agents>>
                      /\ Keep)

op_ACTION ==
    /\ CountLine
    /\ \E t \in LineTokens \ {<<>>} :
           /\ Handler(t) = "op_ACTION"
           /\ Invoke(t)
           /\ Require(in_behaviour /\ ~in_action, "Cannot define actions outside behaviours or inside other actions",
                      /\ in_action' = TRUE
                      /\ UNCHANGED <<in_agent, in_message, in_behaviour, in_graph, ps_agents>>
                      /\ Keep)

op_EACTION ==
    /\ CountLine
    /\ \E t \in LineTokens \ {<<>>} :
           /\ Handler(t) = "op_EACTION"
           /\ Invoke(t)
           /\ Require(in_action, "Not inside any action",
                      /\ in_action' = FALSE
                      /\ UNCHANGED <<in_agent, in_message, in_behaviour, in_graph, ps_agents>>
                      /\ Keep)

\* An instruction opcode (DECL): legal inside an action only, opens and
\* closes no context.
op_DECL ==
    /\ CountLine
    /\ \E t \in LineTokens \ {<<>>} :
           /\ Handler(t) = "op_DECL"
           /\ Invoke(t)
           /\ Require(in_action, "Cannot declare variables outside actions",
                      /\ UNCHANGED <<in_agent, in_message, in_behaviour, in_action, in_graph, ps_agents>>
                      /\ Keep)

\* PRM with two arguments: a parameter of the message being declared.
op_message_PRM ==
    /\ CountLine
    /\ \E t \in LineTokens \ {<<>>} :
           /\ Handler(t) = "op_message_PRM"
           /\ Invoke(t)
           /\ Require(in_message, "Cannot define message parameters outside message scope",
                      /\ UNCHANGED <<in_agent, in_message, in_behaviour, in_action, in_graph, ps_agents>>
                      /\ Keep)

\* PRM with more than two arguments: a parameter of the agent being declared.
op_agent_PRM ==
    /\ CountLine
    /\ \E t \in LineTokens \ {<<>>} :
           /\ Handler(t) = "op_agent_PRM"
           /\ Invoke(t)
           /\ Require(in_agent /\ ~in_behaviour, "Cannot define agent parameters outside agent scope",
                      /\ UNCHANGED <<in_agent, in_message, in_behaviour, in_action, in_graph, ps_agents>>
                      /\ Keep)

\* The handlers of the instructions of an action body other than DECL.
InstructionHandlers ==
    { "op_EBLOCK", "handle_unordered_conditional_statement",
      "handle_ordered_conditional_statement", "handle_math_statement",
      "handle_list_modification", "op_LEN", "op_CLR", "handle_list_inclusion",
      "op_SEND", "op_SUBS", "op_SET", "op_REMEN", "op_RAND", "op_ROUND" }

\* An instruction: legal inside an action only, opens and closes no context.
op_instruction ==
    /\ CountLine
    /\ \E t \in LineTokens \ {<<>>} :
           /\ Handler(t) \in InstructionHandlers
           /\ Invoke(t)
           /\ Require(in_action, "Not inside any action",
                      /\ UNCHANGED <<in_agent, in_message, in_behaviour, in_action, in_graph, ps_agents>>
                      /\ Keep)

\* The default case of the match statement.
UnknownTokens ==
    /\ CountLine
    /\ \E t \in LineTokens \ {<<>>} :
           /\ Handler(t) = "panic"
           /\ tokens' = t
           /\ invoked' = <<>>
           /\ Panic("Unknown tokens: " \o Repr(t))

\* State.verify_end_state: the reason it panics with, "" when it returns.
\* agent, message, graph: self.in_agent, self.in_message, self.in_graph
VerifyEndState_SkipsMessage(agent, message, graph) ==
    IF agent THEN "Missing EAGENT"
    ELSE IF graph THEN "Missing EGRAPH"
    ELSE ""

VerifyEndState(agent, message, graph) ==
    IF agent THEN "Missing EAGENT"
    ELSE IF message THEN "Missing EMESSAGE"
    ELSE IF graph THEN "Missing EGRAPH"
    ELSE ""

\* State.get_parsed_data, called by parse_lines once the lines are exhausted.
GetParsedData ==
    /\ outcome = "parsing"
    /\ ended' = TRUE
    /\ reason' = VerifyEndState(in_agent, in_message, in_graph)
    /\ outcome' = IF VerifyEndState(in_agent, in_message, in_graph) = "" THEN "parsed" ELSE "panic"
    /\ UNCHANGED <<in_agent, in_message, in_behaviour, in_action, in_graph, line_num,
                   tokens, invoked, ps_agents, code>>
    /\ UNCHANGED notParseVars

\* get_spade_code: the Code is built from the ParsedData parse_lines returned.
GetSpadeCode ==
    /\ outcome = "parsed"
    /\ ~code
    /\ code' = TRUE
    /\ UNCHANGED <<in_agent, in_message, in_behaviour, in_action, in_graph, line_num,
                   outcome, reason, ended, tokens, invoked, ps_agents>>
    /\ UNCHANGED notParseVars

ParseInit ==
    /\ in_agent = FALSE
    /\ in_message = FALSE
    /\ in_behaviour = FALSE
    /\ in_action = FALSE
    /\ in_graph = FALSE
    /\ line_num = 0
    /\ outcome = "parsing"
    /\ reason = ""
    /\ ended = FALSE
    /\ tokens = <<>>
    /\ invoked = <<>>
    /\ ps_agents = <<>>
    /\ code = FALSE

ParseParked ==
    /\ in_agent = FALSE
    /\ in_message = FALSE
    /\ in_behaviour = FALSE
    /\ in_action = FALSE
    /\ in_graph = FALSE
    /\ line_num = 0
    /\ outcome = "parked"
    /\ reason = ""
    /\ ended = FALSE
    /\ tokens = <<>>
    /\ invoked = <<>>
    /\ ps_agents = <<>>
    /\ code = FALSE

ParseNext ==
    \/ BlankLine
    \/ op_AGENT
    \/ op_EAGENT
    \/ op_MESSAGE
    \/ op_EMESSAGE
    \/ op_BEHAV
    \/ op_EBEHAV
    \/ op_ACTION
    \/ op_EACTION
    \/ op_DECL
    \/ op_message_PRM
    \/ op_agent_PRM
    \/ op_instruction
    \/ UnknownTokens
    \/ GetParsedData
    \/ GetSpadeCode

(***************************************************************************)
(* Statistical graph.  PythonGraph.add_statistical_graph emits             *)
(* generate_graph_structure; the operators below give the values the       *)
(* emitted statements compute, the actions run the emitted function.       *)
(*                                                                         *)
(* A StatisticalGraph is [size, agents], agents the sequence of            *)
(* graph.agents.values() (a dict keyed by agent name, in declaration       *)
(* order), each [name, amount, connections].  A jid                        *)
(* f"{i}_{random_id}@{domain}" is modelled by its index i.                 *)
(***************************************************************************)
TypeNames == <<"A", "B">>

Percents == {40, 50, 60, 100}
Sizes == {0, 1, 3, 5, 10}

AgentAmounts ==
    {[kind |-> "const", value |-> c] : c \in 0..MaxPop}
        \cup {[kind |-> "percent", value |-> p] : p \in Percents}

ConstAmounts == {[kind |-> "const", value |-> c] : c \in 0..MaxPop}

NoConnections == [kind |-> "const", value |-> 0, a |-> 0, b |-> 0]

ConnectionAmounts ==
    { [kind |-> "const", value |-> 1, a |-> 0, b |-> 0],
      [kind |-> "const", value |-> MaxPop + 1, a |-> 0, b |-> 0],
      [kind |-> "normal", value |-> 0, a |-> 0, b |-> 0],
      [kind |-> "exp", value |-> 0, a |-> 0, b |-> 0],
      [kind |-> "uniform", value |-> 0, a |-> 1, b |-> 2] }

\* Python's round() of num / den (den > 0): to nearest, ties to even.
PyRound_Truncates(num, den) == num \div den

PyRound(num, den) ==
    LET q == num \div den
        r == num % den
    IN  IF 2 * r < den THEN q
        ELSE IF 2 * r > den THEN q + 1
        ELSE IF q % 2 = 0 THEN q ELSE q + 1

\* The value of the emitted "_num_X = ..." statement.
NumOf(agent, size) ==
    IF agent.amount.kind = "const"
        THEN agent.amount.value
        ELSE PyRound(agent.amount.value * size, 100)

RECURSIVE SumNums(_, _, _)
SumNums(agents, size, n) ==
    IF n = 0 THEN 0 ELSE SumNums(agents, size, n - 1) + NumOf(agents[n], size)

\* The value of the emitted "num_agents = _num_X + _num_Y + ..." statement.
NumAgents(g) == SumNums(g.agents, g.size, Len(g.agents))

\* The integers the emitted draw "num_connections = ..." can produce.
Draws(c) ==
    IF c.kind = "const" THEN {c.value}
    ELSE IF c.kind = "normal" THEN (0 - 2)..(MaxPop + 1)
    ELSE IF c.kind = "exp" THEN 0..(MaxPop + 1)
    ELSE c.a..c.b

Max(x, y) == IF x >= y THEN x ELSE y
Min(x, y) == IF x <= y THEN x ELSE y

\* "num_connections = max(min(num_connections, len(jids) - 1), 0)"
Clamp_NoUpperBound(d, jids) == Max(d, 0)

Clamp(d, jids) == Max(Min(d, Len(jids) - 1), 0)

\* "[other_jid for other_jid in jids if other_jid != jid]"
Others(jids, jid) == SelectSeq(jids, LAMBDA o : o # jid)

Injective(f) == \A i, j \in DOMAIN f : f[i] = f[j] => i = j

\* random.sample(population, k): the elements at k distinct positions, in any
\* order; ValueError (the empty set here) unless 0 <= k <= len(population).
Sample(population, k) ==
    IF k < 0 \/ k > Len(population) THEN {}
    ELSE {[i \in 1..k |-> population[p[i]]] :
             p \in {f \in [1..k -> 1..Len(population)] : Injective(f)}}


StatAgents(amounts, conns) ==
    {<<>>}
    \cup {<<[name |-> TypeNames[1], amount |-> m, connections |-> c]>> :
             m \in amounts, c \in conns}
    \cup {<<[name |-> TypeNames[1], amount |-> m1, connections |-> c1],
            [name |-> TypeNames[2], amount |-> m2, connections |-> c2]>> :
             m1 \in amounts, m2 \in amounts, c1 \in conns, c2 \in conns}

\* The graphs the model runs: any size and amounts when no connection is
\* drawn, and every kind of connection amount for populations up to MaxPop
\* (one agent type) or MaxPop - 1 (two agent types).
StatGraphs ==
    {[size |-> s, agents |-> ag] :
        s \in Sizes, ag \in StatAgents(AgentAmounts, {NoConnections})}
    \cup {g \in {[size |-> 10, agents |-> ag] :
                    ag \in StatAgents(ConstAmounts, ConnectionAmounts)} :
             NumAgents(g) + Len(g.agents) <= MaxPop + 1}

StatInit ==
    /\ sgraph \in StatGraphs
    /\ st_pc = "start"
    /\ st_jids = <<>>
    /\ st_agents = <<>>
    /\ next_agent_idx = 0
    /\ st_type = 0
    /\ st_iter = 0
    /\ st_drawn = 0
    /\ num_connections = 0

StatParked ==
    /\ sgraph = [size |-> 0, agents |-> <<>>]
    /\ st_pc = "parked"
    /\ st_jids = <<>>
    /\ st_agents = <<>>
    /\ next_agent_idx = 0
    /\ st_type = 0
    /\ st_iter = 0
    /\ st_drawn = 0
    /\ num_connections = 0

\* "if not graph.agents": the emitted function is "return []" alone.
StatReturnEmpty ==
    /\ st_pc = "start"
    /\ sgraph.agents = <<>>
    /\ st_pc' = "done"
    /\ UNCHANGED <<sgraph, st_jids, st_agents, next_agent_idx, st_type, st_iter,
                   st_drawn, num_connections>>
    /\ UNCHANGED notStatVars

\* The statements before the first loop: the _num_X, num_agents, jids,
\* agents = [], next_agent_idx = 0.
StatStart ==
    /\ st_pc = "start"
    /\ sgraph.agents # <<>>
    /\ st_jids' = [i \in 1..NumAgents(sgraph) |-> i - 1]
    /\ st_agents' = <<>>
    /\ next_agent_idx' = 0
    /\ st_type' = 1
    /\ st_iter' = 0
    /\ st_pc' = "loop"
    /\ UNCHANGED <<sgraph, st_drawn, num_connections>>
    /\ UNCHANGED notStatVars

\* One iteration of the loop "for _ in range(_num_X)" emitted for the
\* st_type-th agent type.
StatIteration ==
    /\ st_pc = "loop"
    /\ st_type <= Len(sgraph.agents)
    /\ st_iter < NumOf(sgraph.agents[st_type], sgraph.size)
    /\ LET agent == sgraph.agents[st_type]
       IN  \E d \in Draws(agent.connections) :
             LET k == Clamp(d, st_jids)
                 jid == st_jids[next_agent_idx + 1]
                 pool == Others(st_jids, jid)
             IN  /\ st_drawn' = d
                 /\ num_connections' = k
                 /\ IF Sample(pool, k) = {}
                       THEN /\ st_pc' = "error"
                            /\ UNCHANGED <<st_agents, next_agent_idx, st_iter>>
                       ELSE /\ \E s \in Sample(pool, k) :
                                 st_agents' = Append(st_agents,
                                     [jid |-> jid, type |-> agent.name, connections |-> s])
                            /\ next_agent_idx' = next_agent_idx + 1
                            /\ st_iter' = st_iter + 1
                            /\ st_pc' = "loop"
    /\ UNCHANGED <<sgraph, st_jids, st_type>>
    /\ UNCHANGED notStatVars

\* The range of the current loop is exhausted: on to the next type's loop.
StatNextLoop ==
    /\ st_pc = "loop"
    /\ st_type <= Len(sgraph.agents)
    /\ st_iter >= NumOf(sgraph.agents[st_type], sgraph.size)
    /\ st_type' = st_type + 1
    /\ st_iter' = 0
    /\ UNCHANGED <<sgraph, st_pc, st_jids, st_agents, next_agent_idx, st_drawn,
                   num_connections>>
    /\ UNCHANGED notStatVars

\* "return agents"
StatReturn ==
    /\ st_pc = "loop"
    /\ st_type > Len(sgraph.agents)
    /\ st_pc' = "done"
    /\ UNCHANGED <<sgraph, st_jids, st_agents, next_agent_idx, st_type, st_iter,
                   st_drawn, num_connections>>
    /\ UNCHANGED notStatVars

StatNext ==
    \/ StatReturnEmpty
    \/ StatStart
    \/ StatIteration
    \/ StatNextLoop
    \/ StatReturn

(***************************************************************************)
(* Matrix graph.  PythonGraph.add_matrix_graph emits                       *)
(* generate_graph_structure; ScaleFactor, InitialIndxSets and              *)
(* EmittedTypeName are the values the emitter writes into the emitted      *)
(* text, the actions run the emitted function.                             *)
(*                                                                         *)
(* A MatrixGraph is [agents, scale]: agents the list graph.agents, each    *)
(* [name, adj_row] with adj_row a row of 0/1, one entry per agent type;    *)
(* scale is [defined, value].  A jid is modelled by its index i.           *)
(***************************************************************************)
MatrixNames == <<"A", "B", "C", "D">>

AdjRows(n) == [1..n -> {0, 1}]

MatrixAgents(n) ==
    {[i \in 1..n |-> [name |-> MatrixNames[i], adj_row |-> rows[i]]] :
        rows \in [1..n -> AdjRows(n)]}

Scales ==
    {[defined |-> FALSE, value |-> 0]}
        \cup {[defined |-> TRUE, value |-> v] : v \in 1..MaxScale}

MatrixGraphs ==
    {[agents |-> ag, scale |-> sc] :
        ag \in UNION {MatrixAgents(n) : n \in 0..MaxTypes}, sc \in Scales}

\* "scale_factor = {graph.scale}" if graph.is_scale_defined(), else "scale_factor = 1"
ScaleFactor_NoDefault(g) == g.scale.value

ScaleFactor(g) == IF g.scale.defined THEN g.scale.value ELSE 1

\* list(compress(range(len(adj_indx)), adj_indx)): the 0-based positions of
\* the entries of the row that are 1.
AdjIndx_Complement(row) ==
    SelectSeq([i \in 1..Len(row) |-> i - 1], LAMBDA i : row[i + 1] # 1)

AdjIndx(row) ==
    SelectSeq([i \in 1..Len(row) |-> i - 1], LAMBDA i : row[i + 1] = 1)

\* The lists of the emitted "indx_sets.append([...])" statements.
InitialIndxSets(g) == [b \in 1..Len(g.agents) |-> AdjIndx(g.agents[b].adj_row)]

\* The name in the emitted line '"type": "{agent.name}",': the line is
\* emitted after the loop "for agent in graph.agents" has ended, so agent is
\* the last element of graph.agents.
EmittedTypeName(g) == g.agents[Len(g.agents)].name

\* "(x) % graph_size"
GraphSize(g) == ScaleFactor(g) * Len(g.agents)

MatInit ==
    /\ mgraph \in MatrixGraphs
    /\ mx_pc = "start"
    /\ mx_jids = <<>>
    /\ mx_agents = <<>>
    /\ indx_sets = <<>>
    /\ base_agent_index = 0
    /\ shift = 0

MatParked ==
    /\ mgraph = [agents |-> <<>>, scale |-> [defined |-> FALSE, value |-> 0]]
    /\ mx_pc = "parked"
    /\ mx_jids = <<>>
    /\ mx_agents = <<>>
    /\ indx_sets = <<>>
    /\ base_agent_index = 0
    /\ shift = 0

\* "if not graph.agents": the emitted function is "return []" alone.
MatReturnEmpty ==
    /\ mx_pc = "start"
    /\ mgraph.agents = <<>>
    /\ mx_pc' = "done"
    /\ UNCHANGED <<mgraph, mx_jids, mx_agents, indx_sets, base_agent_index, shift>>
    /\ UNCHANGED notMatVars

\* The statements before the loop over base_agent_index.
MatStart ==
    /\ mx_pc = "start"
    /\ mgraph.agents # <<>>
    /\ mx_jids' = [i \in 1..GraphSize(mgraph) |-> i - 1]
    /\ mx_agents' = <<>>
    /\ indx_sets' = InitialIndxSets(mgraph)
    /\ base_agent_index' = 0
    /\ shift' = 0
    /\ mx_pc' = "base"
    /\ UNCHANGED mgraph
    /\ UNCHANGED notMatVars

\* The list indices after "for shift in range(1, scale_factor):
\* indices.append((base_agent_index + shift * n_agent_types) % graph_size)"
ExtendedIndices(indices, base, g) ==
    indices \o [sh \in 1..(ScaleFactor(g) - 1) |->
                   (base + sh * Len(g.agents)) % GraphSize(g)]

\* Entering an iteration of "for base_agent_index in range(n_agent_types)":
\* indices is indx_sets[base_agent_index] itself, so the appends change it.
MatBase ==
    /\ mx_pc = "base"
    /\ base_agent_index < Len(mgraph.agents)
    /\ indx_sets' = [indx_sets EXCEPT ![base_agent_index + 1] =
                        ExtendedIndices(@, base_agent_index, mgraph)]
    /\ shift' = 0
    /\ mx_pc' = "shift"
    /\ UNCHANGED <<mgraph, mx_jids, mx_agents, base_agent_index>>
    /\ UNCHANGED notMatVars

\* "connections.append(jids[(i + shift * n_agent_types) % graph_size])" for i in indices
Connections(indices, sh, g, jids) ==
    [k \in 1..Len(indices) |->
        jids[((indices[k] + sh * Len(g.agents)) % GraphSize(g)) + 1]]

\* One iteration of "for shift in range(scale_factor)": a record is appended.
MatShift ==
    /\ mx_pc = "shift"
    /\ shift < ScaleFactor(mgraph)
    /\ LET n == Len(mgraph.agents)
           jid == mx_jids[base_agent_index + shift * n + 1]
           indices == indx_sets[base_agent_index + 1]
       IN  mx_agents' = Append(mx_agents,
               [jid |-> jid,
                type |-> EmittedTypeName(mgraph),
                connections |-> Connections(indices, shift, mgraph, mx_jids)])
    /\ shift' = shift + 1
    /\ UNCHANGED <<mgraph, mx_pc, mx_jids, indx_sets, base_agent_index>>
    /\ UNCHANGED notMatVars

\* The range of shift is exhausted: the next base_agent_index.
MatNextBase ==
    /\ mx_pc = "shift"
    /\ shift >= ScaleFactor(mgraph)
    /\ base_agent_index' = base_agent_index + 1
    /\ mx_pc' = "base"
    /\ UNCHANGED <<mgraph, mx_jids, mx_agents, indx_sets, shift>>
    /\ UNCHANGED notMatVars

\* "return agents"
MatReturn ==
    /\ mx_pc = "base"
    /\ base_agent_index >= Len(mgraph.agents)
    /\ mx_pc' = "done"
    /\ UNCHANGED <<mgraph, mx_jids, mx_agents, indx_sets, base_agent_index, shift>>
    /\ UNCHANGED notMatVars

MatNext ==
    \/ MatReturnEmpty
    \/ MatStart
    \/ MatBase
    \/ MatShift
    \/ MatNextBase
    \/ MatReturn

(***************************************************************************)
(* The emitters.  PythonSpadeCode and PythonGraph extend PythonCode, which *)
(* holds an indentation level and the list of emitted lines.  The calls an *)
(* emitter makes on itself (add_line, indent_right, indent_left) are the   *)
(* steps of the model: the operators below give, for an IR, the sequence   *)
(* of calls the generating methods make, and one action runs one call.     *)
(* An emitted line is [indent, text, args]: the text as written in the     *)
(* source, with the values of its {placeholders} in args.                  *)
(*                                                                         *)
(* An agent of this model is [name, init_floats]; its other parameter      *)
(* dictionaries and its behaviour dictionaries are empty, so the loops     *)
(* over them make no call.                                                 *)
(***************************************************************************)
AddLine(t) == [op |-> "line", text |-> t, args |-> <<>>]

AddLineF(t, a) == [op |-> "line", text |-> t, args |-> a]

AddNewline == AddLine("")

IndentRight == [op |-> "right", text |-> "", args |-> <<>>]

IndentLeft == [op |-> "left", text |-> "", args |-> <<>>]

\* raise Exception(...): the constructor of the emitter is left.
Raise(t) == [op |-> "raise", text |-> t, args |-> <<>>]

RECURSIVE Flatten(_)
Flatten(ss) == IF ss = <<>> THEN <<>> ELSE Head(ss) \o Flatten(Tail(ss))

\* PythonSpadeCode.add_required_imports
SpadeImports ==
    << AddLine("import copy"),
           AddLine("import datetime"),
           AddLine("import random"),
           AddLine("import httpx"),
           AddLine("import numpy"),
           AddLine("import orjson"),
           AddLine("import spade") >>

\* PythonSpadeCode.add_agent_constructor
AddAgentConstructor(agent) ==
    << AddLine("def __init__(self, jid, password, backup_url = None, backup_period = 60, backup_delay = 0, logger = None, **kwargs):"),
           IndentRight,
           AddLine("super().__init__(jid, password, verify_security=False)"),
           AddLine("if logger: logger.debug(f\"[{jid}] Received parameters: jid: {jid}, password: {password}, backup_url: {backup_url}, backup_period: {backup_period}, backup_delay: {backup_delay}, kwargs: {kwargs}\")"),
           AddLine("self.logger = logger"),
           AddLine("self.backup_url = backup_url"),
           AddLine("self.backup_period = backup_period"),
           AddLine("self.backup_delay = backup_delay"),
           AddLine("self.connections = kwargs.get(\"connections\", [])"),
           AddLine("self.msgRCount = kwargs.get(\"msgRCount\", 0)"),
           AddLine("self.msgSCount = kwargs.get(\"msgSCount\", 0)") >>
    \o [k \in 1..Len(agent.init_floats) |->
           LET p == agent.init_floats[k]
           IN  AddLineF("self.{init_float_param.name} = kwargs.get(\"{init_float_param.name}\", {init_float_param.value})", <<p.name, p.name, p.value>>)]
    \o << AddLine("if self.logger: self.logger.debug(f\"[{self.jid}] Class dict after initialization: {self.__dict__}\")"),
           IndentLeft,
           AddNewline,
           AddLine("@property"),
           AddLine("def connCount(self):"),
           IndentRight,
           AddLine("return len(self.connections)"),
           IndentLeft >>

\* PythonSpadeCode.add_message_utils
AddMessageUtils ==
    << AddLine("def get_json_from_spade_message(self, msg):"),
           IndentRight,
           AddLine("return orjson.loads(msg.body)"),
           IndentLeft,
           AddNewline,
           AddLine("def get_spade_message(self, receiver_jid, body):"),
           IndentRight,
           AddLine("msg = spade.message.Message(to=receiver_jid)"),
           AddLine("body[\"sender\"] = str(self.jid)"),
           AddLine("msg.metadata[\"type\"] = body[\"type\"]"),
           AddLine("msg.metadata[\"performative\"] = body[\"performative\"]"),
           AddLine("msg.body = str(orjson.dumps(body), encoding=\"utf-8\")"),
           AddLine("return msg"),
           IndentLeft >>

\* PythonSpadeCode.add_no_match_template
AddNoMatchTemplate(behaviour_name) ==
    << AddLineF("{behaviour_name}_template = spade.template.Template()", <<behaviour_name>>),
           AddLineF("{behaviour_name}_template.set_metadata(\"reserved\", \"no_message_match\")", <<behaviour_name>>) >>

\* The four loops of add_agent_setup: the template and the add_behaviour
\* call of every behaviour of the agent.
SetupRegistrations_SkipsOneTime(agent) ==
    Flatten([k \in 1..Len(agent.setup_behaviours) |->
        LET setup_behaviour == agent.setup_behaviours[k]
        IN  AddNoMatchTemplate(setup_behaviour.name)
            \o << AddLineF("self.add_behaviour(self.{setup_behaviour.name}(), {setup_behaviour.name}_template)",
                           <<setup_behaviour.name, setup_behaviour.name>>) >>])
    \o Flatten([k \in 1..Len(agent.cyclic_behaviours) |->
        LET cyclic_behaviour == agent.cyclic_behaviours[k]
        IN  AddNoMatchTemplate(cyclic_behaviour.name)
            \o << AddLineF("self.add_behaviour(self.{cyclic_behaviour.name}(period={cyclic_behaviour.period}), {cyclic_behaviour.name}_template)",
                           <<cyclic_behaviour.name, cyclic_behaviour.period, cyclic_behaviour.name>>) >>])
    \o Flatten([k \in 1..Len(agent.message_received_behaviours) |->
        LET message_received_behaviour == agent.message_received_behaviours[k]
        IN  << AddLineF("{message_received_behaviour.name}_template = spade.template.Template()",
                        <<message_received_behaviour.name>>),
               AddLineF("{message_received_behaviour.name}_template.set_metadata(\"type\", \"{message_received_behaviour.received_message.type}\")",
                        <<message_received_behaviour.name, message_received_behaviour.received_message.type>>),
               AddLineF("{message_received_behaviour.name}_template.set_metadata(\"performative\", \"{message_received_behaviour.received_message.performative}\")",
                        <<message_received_behaviour.name, message_received_behaviour.received_message.performative>>),
               AddLineF("self.add_behaviour(self.{message_received_behaviour.name}(), {message_received_behaviour.name}_template)",
                        <<message_received_behaviour.name, message_received_behaviour.name>>) >>])

SetupRegistrations(agent) ==
    Flatten([k \in 1..Len(agent.setup_behaviours) |->
        LET setup_behaviour == agent.setup_behaviours[k]
        IN  AddNoMatchTemplate(setup_behaviour.name)
            \o << AddLineF("self.add_behaviour(self.{setup_behaviour.name}(), {setup_behaviour.name}_template)",
                           <<setup_behaviour.name, setup_behaviour.name>>) >>])
    \o Flatten([k \in 1..Len(agent.one_time_behaviours) |->
        LET one_time_behaviour == agent.one_time_behaviours[k]
        IN  AddNoMatchTemplate(one_time_behaviour.name)
            \o << AddLineF("self.add_behaviour(self.{one_time_behaviour.name}(start_at=datetime.datetime.now() + datetime.timedelta(seconds={one_time_behaviour.delay})), {one_time_behaviour.name}_template)",
                           <<one_time_behaviour.name, one_time_behaviour.delay, one_time_behaviour.name>>) >>])
    \o Flatten([k \in 1..Len(agent.cyclic_behaviours) |->
        LET cyclic_behaviour == agent.cyclic_behaviours[k]
        IN  AddNoMatchTemplate(cyclic_behaviour.name)
            \o << AddLineF("self.add_behaviour(self.{cyclic_behaviour.name}(period={cyclic_behaviour.period}), {cyclic_behaviour.name}_template)",
                           <<cyclic_behaviour.name, cyclic_behaviour.period, cyclic_behaviour.name>>) >>])
    \o Flatten([k \in 1..Len(agent.message_received_behaviours) |->
        LET message_received_behaviour == agent.message_received_behaviours[k]
        IN  << AddLineF("{message_received_behaviour.name}_template = spade.template.Template()",
                        <<message_received_behaviour.name>>),
               AddLineF("{message_received_behaviour.name}_template.set_metadata(\"type\", \"{message_received_behaviour.received_message.type}\")",
                        <<message_received_behaviour.name, message_received_behaviour.received_message.type>>),
               AddLineF("{message_received_behaviour.name}_template.set_metadata(\"performative\", \"{message_received_behaviour.received_message.performative}\")",
                        <<message_received_behaviour.name, message_received_behaviour.received_message.performative>>),
               AddLineF("self.add_behaviour(self.{message_received_behaviour.name}(), {message_received_behaviour.name}_template)",
                        <<message_received_behaviour.name, message_received_behaviour.name>>) >>])

\* PythonSpadeCode.add_agent_setup
AddAgentSetup(agent) ==
    << AddLine("def setup(self):"),
           IndentRight,
           AddLine("if self.backup_url:"),
           IndentRight >>
    \o AddNoMatchTemplate("BackupBehaviour")
    \o << AddLine("self.add_behaviour(self.BackupBehaviour(start_at=datetime.datetime.now() + datetime.timedelta(seconds=self.backup_delay), period=self.backup_period), BackupBehaviour_template)"),
           IndentLeft >>
    \o SetupRegistrations(agent)
    \o << AddLine("if self.logger: self.logger.debug(f\"[{self.jid}] Class dict after setup: {self.__dict__}\")"),
           IndentLeft >>

\* PythonSpadeCode.add_backup_behaviour
AddBackupBehaviour(agent) ==
    << AddLine("class BackupBehaviour(spade.behaviour.PeriodicBehaviour):"),
           IndentRight,
           AddLine("def __init__(self, start_at, period):"),
           IndentRight,
           AddLine("super().__init__(start_at=start_at, period=period)"),
           AddLine("self.http_client = httpx.AsyncClient(timeout=period)"),
           IndentLeft,
           AddNewline >>
    \o << AddLine("async def run(self):"),
           IndentRight,
           AddLine("data = {"),
           IndentRight,
           AddLine("\"jid\": str(self.agent.jid),"),
           AddLineF("\"type\": \"{agent.name}\",", <<agent.name>>),
           AddLine("\"floats\": {"),
           IndentRight,
           AddLine("\"msgRCount\": self.agent.msgRCount,"),
           AddLine("\"msgSCount\": self.agent.msgSCount,"),
           AddLine("\"connCount\": self.agent.connCount,") >>
    \o [k \in 1..Len(agent.init_floats) |->
           LET p == agent.init_floats[k]
           IN  AddLineF("\"{float_param_name}\": self.agent.{float_param_name},", <<p.name, p.name>>)]
    \o << IndentLeft,
           AddLine("},"),
           AddLine("\"enums\": {"),
           IndentRight >>
    \o << IndentLeft,
           AddLine("},"),
           AddLine("\"connections\": {"),
           IndentRight,
           AddLine("\"connections\": self.agent.connections,") >>
    \o << IndentLeft,
           AddLine("},"),
           AddLine("\"messages\": {"),
           IndentRight >>
    \o << IndentLeft,
           AddLine("}"),
           IndentLeft,
           AddLine("}"),
           AddLine("if self.agent.logger: self.agent.logger.debug(f\"[{self.agent.jid}] Sending backup data: {data}\")"),
           AddLine("try:"),
           IndentRight,
           AddLine("await self.http_client.post(self.agent.backup_url, headers={\"Content-Type\": \"application/json\"}, data=orjson.dumps(data))"),
           IndentLeft,
           AddLine("except Exception as e:"),
           IndentRight,
           AddLine("if self.agent.logger: self.agent.logger.error(f\"[{self.agent.jid}] Backup error type: {e.__class__}, additional info: {e}\")"),
           IndentLeft,
           IndentLeft,
           IndentLeft >>

(***************************************************************************)
(* The behaviour classes.  A behaviour is [name, kind, delay, period,      *)
(* received_message, actions], kind being "setup", "one_time", "cyclic" or *)
(* "message_received"; an action is [name, kind, send_message,             *)
(* main_block], kind being "modify_self" or "send_msg"; a statement of a   *)
(* block is [op, arg1, arg2] and an argument [expr, type_in_op], where     *)
(* type_in_op is the set of the argument classes the type is an instance   *)
(* of.                                                                     *)
(***************************************************************************)
Arg(e, t) == [expr |-> e, type_in_op |-> t]

\* PythonSpadeCode.parse_arg.  The expr of a message parameter is here the
\* property name, the part after the dot.
ParseArg(arg) ==
    IF "AgentParam" \in arg.type_in_op THEN "self.agent." \o arg.expr
    ELSE IF "EnumValue" \in arg.type_in_op THEN "\"" \o arg.expr \o "\""
    ELSE IF "ReceivedMessageParam" \in arg.type_in_op THEN "rcv[\"" \o arg.expr \o "\"]"
    ELSE IF "SendMessageParam" \in arg.type_in_op THEN "send[\"" \o arg.expr \o "\"]"
    ELSE arg.expr

\* PythonSpadeCode.add_block, case Divide()
DivideLines_Unguarded(stmt) ==
    << AddLineF("{arg1} /= {arg2}", <<ParseArg(stmt.arg1), ParseArg(stmt.arg2)>>) >>

DivideLines(stmt) ==
    << AddLineF("if {arg2} == 0: return", <<ParseArg(stmt.arg2)>>),
       AddLineF("{arg1} /= {arg2}", <<ParseArg(stmt.arg1), ParseArg(stmt.arg2)>>) >>

\* PythonSpadeCode.add_block, case Send() to a Connection
SendLines(stmt) ==
    << AddLineF("if self.agent.logger: self.agent.logger.debug(f\"[{self.agent.jid}] Send message {send} to {receiver}\")",
                <<ParseArg(stmt.arg1)>>),
       AddLineF("await self.send(self.agent.get_spade_message({receiver}, send))",
                <<ParseArg(stmt.arg1)>>),
       AddLine("self.agent.msgSCount += 1") >>

\* PythonSpadeCode.add_block, case Send() to a ConnectionList
SendListLines_CountsAfterLoop(stmt) ==
    << AddLineF("if self.agent.logger: self.agent.logger.debug(f\"[{self.agent.jid}] Send message {send} to {receivers}\")",
                <<ParseArg(stmt.arg1)>>),
       AddLineF("for receiver in {receivers}:", <<ParseArg(stmt.arg1)>>),
       IndentRight,
       AddLine("await self.send(self.agent.get_spade_message(receiver, send))"),
       IndentLeft,
       AddLine("self.agent.msgSCount += 1") >>

SendListLines(stmt) ==
    << AddLineF("if self.agent.logger: self.agent.logger.debug(f\"[{self.agent.jid}] Send message {send} to {receivers}\")",
                <<ParseArg(stmt.arg1)>>),
       AddLineF("for receiver in {receivers}:", <<ParseArg(stmt.arg1)>>),
       IndentRight,
       AddLine("await self.send(self.agent.get_spade_message(receiver, send))"),
       AddLine("self.agent.msgSCount += 1"),
       IndentLeft >>

\* PythonSpadeCode.add_block, case Subset()
SubsetLines(stmt) ==
    << AddLineF("if round({num}) > 0:", <<ParseArg(stmt.arg3)>>),
       IndentRight,
       AddLineF("{to_list} = [copy.deepcopy(elem) for elem in random.sample({from_list}, min(round({num}), len({from_list})))]",
                <<ParseArg(stmt.arg1), ParseArg(stmt.arg2), ParseArg(stmt.arg3), ParseArg(stmt.arg2)>>),
       IndentLeft,
       AddLine("else:"),
       IndentRight,
       AddLineF("{to_list} = []", <<ParseArg(stmt.arg1)>>),
       IndentLeft >>

\* PythonSpadeCode.add_block, case Set() from a MessageList
SetFromListLines_NoReturn(stmt) ==
    << AddLineF("if len(list(filter(lambda msg: msg.body[\"type\"] == {msg}.body[\"type\"] and msg.body[\"performative\"] == {msg}.body[\"performative\"], {msg_list}))):",
                <<ParseArg(stmt.arg1), ParseArg(stmt.arg1), ParseArg(stmt.arg2)>>),
       IndentRight,
       AddLineF("{msg} = copy.deepcopy(random.choice(list(filter(lambda msg: msg.body[\"type\"] == {msg}.body[\"type\"] and msg.body[\"performative\"] == {msg}.body[\"performative\"], {msg_list}))))",
                <<ParseArg(stmt.arg1), ParseArg(stmt.arg1), ParseArg(stmt.arg1), ParseArg(stmt.arg2)>>),
       IndentLeft >>

SetFromListLines(stmt) ==
    << AddLineF("if len(list(filter(lambda msg: msg.body[\"type\"] == {msg}.body[\"type\"] and msg.body[\"performative\"] == {msg}.body[\"performative\"], {msg_list}))):",
                <<ParseArg(stmt.arg1), ParseArg(stmt.arg1), ParseArg(stmt.arg2)>>),
       IndentRight,
       AddLineF("{msg} = copy.deepcopy(random.choice(list(filter(lambda msg: msg.body[\"type\"] == {msg}.body[\"type\"] and msg.body[\"performative\"] == {msg}.body[\"performative\"], {msg_list}))))",
                <<ParseArg(stmt.arg1), ParseArg(stmt.arg1), ParseArg(stmt.arg1), ParseArg(stmt.arg2)>>),
       IndentLeft,
       AddLine("else:"),
       IndentRight,
       AddLine("return"),
       IndentLeft >>

\* PythonSpadeCode.add_block, case RemoveNElements()
RemoveNElementsLines_OneIndentLeft(stmt) ==
    << AddLineF("if round({arg2}) > 0:", <<ParseArg(stmt.arg2)>>),
       IndentRight,
       AddLineF("if round({arg2}) < len({arg1}):", <<ParseArg(stmt.arg2), ParseArg(stmt.arg1)>>),
       IndentRight,
       AddLineF("random.shuffle({arg1})", <<ParseArg(stmt.arg1)>>),
       AddLineF("{arg1} = {arg1}[:len({arg1}) - round({arg2})]",
                <<ParseArg(stmt.arg1), ParseArg(stmt.arg1), ParseArg(stmt.arg1), ParseArg(stmt.arg2)>>),
       IndentLeft,
       AddLine("else:"),
       IndentRight,
       AddLineF("{arg1} = []", <<ParseArg(stmt.arg1)>>),
       IndentLeft >>

RemoveNElementsLines(stmt) ==
    << AddLineF("if round({arg2}) > 0:", <<ParseArg(stmt.arg2)>>),
       IndentRight,
       AddLineF("if round({arg2}) < len({arg1}):", <<ParseArg(stmt.arg2), ParseArg(stmt.arg1)>>),
       IndentRight,
       AddLineF("random.shuffle({arg1})", <<ParseArg(stmt.arg1)>>),
       AddLineF("{arg1} = {arg1}[:len({arg1}) - round({arg2})]",
                <<ParseArg(stmt.arg1), ParseArg(stmt.arg1), ParseArg(stmt.arg1), ParseArg(stmt.arg2)>>),
       IndentLeft,
       AddLine("else:"),
       IndentRight,
       AddLineF("{arg1} = []", <<ParseArg(stmt.arg1)>>),
       IndentLeft,
       IndentLeft >>

\* The conditional and loop kinds of add_block and the operator each
\* compares its arguments with.
Comparisons ==
    [ IfGreaterThan |-> "if {arg1} > {arg2}:",
      IfGreaterThanOrEqual |-> "if {arg1} >= {arg2}:",
      IfLessThan |-> "if {arg1} < {arg2}:",
      IfLessThanOrEqual |-> "if {arg1} <= {arg2}:",
      IfEqual |-> "if {arg1} == {arg2}:",
      IfNotEqual |-> "if {arg1} != {arg2}:",
      WhileGreaterThan |-> "while {arg1} > {arg2}:",
      WhileGreaterThanOrEqual |-> "while {arg1} >= {arg2}:",
      WhileLessThan |-> "while {arg1} < {arg2}:",
      WhileLessThanOrEqual |-> "while {arg1} <= {arg2}:",
      WhileEqual |-> "while {arg1} == {arg2}:",
      WhileNotEqual |-> "while {arg1} != {arg2}:" ]

\* PythonSpadeCode.add_block, case _: the inner match on the statement,
\* which has no default case.
TwoArgLines(stmt) ==
    LET a1 == ParseArg(stmt.arg1)
        a2 == ParseArg(stmt.arg2)
    IN  IF stmt.op \in DOMAIN Comparisons
            THEN << AddLineF(Comparisons[stmt.op], <<a1, a2>>) >>
        ELSE IF stmt.op = "Add" THEN << AddLineF("{arg1} += {arg2}", <<a1, a2>>) >>
        ELSE IF stmt.op = "Subtract" THEN << AddLineF("{arg1} -= {arg2}", <<a1, a2>>) >>
        ELSE IF stmt.op = "Multiply" THEN << AddLineF("{arg1} *= {arg2}", <<a1, a2>>) >>
        ELSE IF stmt.op = "Divide" THEN DivideLines(stmt)
        ELSE IF stmt.op = "AddElement"
            THEN << AddLineF("if {arg2} not in {arg1}: {arg1}.append({arg2})",
                             <<a2, a1, a1, a2>>) >>
        ELSE IF stmt.op = "RemoveElement"
            THEN << AddLineF("if {arg2} in {arg1}: {arg1}.remove({arg2})",
                             <<a2, a1, a1, a2>>) >>
        ELSE IF stmt.op = "IfInList"
            THEN << AddLineF("if {arg2} in {arg1}:", <<a2, a1>>) >>
        ELSE IF stmt.op = "IfNotInList"
            THEN << AddLineF("if {arg2} not in {arg1}:", <<a2, a1>>) >>
        ELSE IF stmt.op = "Length"
            THEN << AddLineF("{arg1} = len({arg2})", <<a1, a2>>) >>
        ELSE IF stmt.op = "RemoveNElements" THEN RemoveNElementsLines(stmt)
        ELSE <<>>

\* PythonSpadeCode.add_block.  A Block is [op |-> "Block", statements]; a
\* Declaration [op |-> "Declaration", name, value]; every other statement
\* [op, arg1, arg2] or [op, arg1, arg2, arg3], op being the name of its
\* class.
RECURSIVE AddBlock(_)
\* The calls made for one statement of the block.
AddStatement(stmt) ==
    IF stmt.op = "Block"
        THEN <<IndentRight>> \o AddBlock(stmt.statements) \o <<IndentLeft>>
    ELSE IF stmt.op = "Declaration"
        THEN << AddLineF("{statement.name} = {value}", <<stmt.name, ParseArg(stmt.value)>>) >>
    ELSE IF stmt.op = "Subset" THEN SubsetLines(stmt)
    ELSE IF stmt.op = "Clear"
        THEN << AddLineF("{list_}.clear()", <<ParseArg(stmt.arg1)>>) >>
    ELSE IF stmt.op = "Send" /\ "Connection" \in stmt.arg1.type_in_op THEN SendLines(stmt)
    ELSE IF stmt.op = "Send" /\ "ConnectionList" \in stmt.arg1.type_in_op THEN SendListLines(stmt)
    ELSE IF stmt.op = "Set" /\ "MessageList" \in stmt.arg2.type_in_op THEN SetFromListLines(stmt)
    ELSE IF stmt.op = "Set"
        THEN << AddLineF("{arg1} = {arg2}", <<ParseArg(stmt.arg1), ParseArg(stmt.arg2)>>) >>
    ELSE IF stmt.op = "Round"
        THEN << AddLineF("{num} = round({num})", <<ParseArg(stmt.arg1), ParseArg(stmt.arg1)>>) >>
    ELSE IF stmt.op = "UniformDist"
        THEN << AddLineF("{result} = random.uniform({a}, {b})",
                         <<ParseArg(stmt.arg1), ParseArg(stmt.arg2), ParseArg(stmt.arg3)>>) >>
    ELSE IF stmt.op = "NormalDist"
        THEN << AddLineF("{result} = numpy.random.normal({mean}, {std_dev})",
                         <<ParseArg(stmt.arg1), ParseArg(stmt.arg2), ParseArg(stmt.arg3)>>) >>
    ELSE IF stmt.op = "ExpDist"
        THEN << AddLineF("{result} = numpy.random.exponential(1/{lambda_}) if {lambda_} > 0 else 0",
                         <<ParseArg(stmt.arg1), ParseArg(stmt.arg2), ParseArg(stmt.arg2)>>) >>
    ELSE TwoArgLines(stmt)

AddBlock(block) ==
    IF block = <<>> THEN << AddLine("...") >>
    ELSE Flatten([k \in 1..Len(block) |-> AddStatement(block[k])])

\* PythonSpadeCode.add_send_message
AddSendMessage(message) ==
    << AddLineF("send = { \"type\": \"{message.type}\", \"performative\": \"{message.performative}\", {float_params}}",
                <<message.type, message.performative, message.float_params>>) >>

\* PythonSpadeCode.add_action_def
AddActionDef(behaviour, action) ==
    << AddLineF(IF action.kind = "send_msg"
                   THEN IF behaviour.kind = "message_received"
                           THEN "async def {action.name}(self, rcv):"
                           ELSE "async def {action.name}(self):"
                   ELSE IF behaviour.kind = "message_received"
                           THEN "def {action.name}(self, rcv):"
                           ELSE "def {action.name}(self):",
                <<action.name>>) >>

\* PythonSpadeCode.add_action_call
AddActionCall(behaviour, action) ==
    << AddLineF(IF action.kind = "send_msg"
                   THEN IF behaviour.kind = "message_received"
                           THEN "await self.{action.name}(rcv)"
                           ELSE "await self.{action.name}()"
                   ELSE IF behaviour.kind = "message_received"
                           THEN "self.{action.name}(rcv)"
                           ELSE "self.{action.name}()",
                <<action.name>>) >>

\* PythonSpadeCode.add_action
AddAction(behaviour, action) ==
    AddActionDef(behaviour, action)
    \o << IndentRight,
          AddLineF("if self.agent.logger: self.agent.logger.debug(f\"[{self.agent.jid}] Run action {action.name}\")",
                   <<action.name>>) >>
    \o (IF action.kind = "send_msg" THEN AddSendMessage(action.send_message) ELSE <<>>)
    \o AddBlock(action.main_block)
    \o << IndentLeft, AddNewline >>

\* PythonSpadeCode.add_rcv_message
AddRcvMessage_CountsBeforeGuard ==
    << AddLine("rcv = await self.receive(timeout=100000)"),
       AddLine("self.agent.msgRCount += 1"),
       AddLine("if rcv:"),
       IndentRight,
       AddLine("rcv = self.agent.get_json_from_spade_message(rcv)"),
       AddLine("if self.agent.logger: self.agent.logger.debug(f\"[{self.agent.jid}] Received message: {rcv}\")"),
       IndentLeft >>

AddRcvMessage ==
    << AddLine("rcv = await self.receive(timeout=100000)"),
       AddLine("if rcv:"),
       IndentRight,
       AddLine("rcv = self.agent.get_json_from_spade_message(rcv)"),
       AddLine("self.agent.msgRCount += 1"),
       AddLine("if self.agent.logger: self.agent.logger.debug(f\"[{self.agent.jid}] Received message: {rcv}\")"),
       IndentLeft >>

\* The spade class a behaviour of each kind extends (generate_agent).
BehaviourType(behaviour) ==
    IF behaviour.kind = "setup" THEN "spade.behaviour.OneShotBehaviour"
    ELSE IF behaviour.kind = "one_time" THEN "spade.behaviour.TimeoutBehaviour"
    ELSE IF behaviour.kind = "cyclic" THEN "spade.behaviour.PeriodicBehaviour"
    ELSE "spade.behaviour.CyclicBehaviour"

\* PythonSpadeCode.add_agent_behaviour
AddAgentBehaviour(behaviour, behaviour_type) ==
    << AddLineF("class {behaviour.name}({behaviour_type}):",
                <<behaviour.name, behaviour_type>>),
       IndentRight >>
    \o Flatten([k \in 1..Len(behaviour.actions) |-> AddAction(behaviour, behaviour.actions[k])])
    \o << AddLine("async def run(self):"), IndentRight >>
    \o IF behaviour.kind # "message_received" /\ behaviour.actions = <<>>
          THEN << AddLine("..."), IndentLeft, IndentLeft >>
          ELSE (IF behaviour.kind = "message_received"
                   THEN AddRcvMessage \o <<IndentRight>> ELSE <<>>)
               \o Flatten([k \in 1..Len(behaviour.actions) |->
                              AddActionCall(behaviour, behaviour.actions[k])])
               \o (IF behaviour.kind = "message_received" THEN <<IndentLeft>> ELSE <<>>)
               \o << IndentLeft, IndentLeft >>

\* PythonCode.add_line, indent_right and indent_left applied to a sequence
\* of calls: the lines emitted, from indentation ind on.
RECURSIVE Render(_, _, _)
Render(ops, ind, lines) ==
    IF ops = <<>> THEN lines
    ELSE LET o == Head(ops)
         IN  IF o.op = "line"
                THEN Render(Tail(ops), ind,
                            Append(lines, [indent |-> ind, text |-> o.text, args |-> o.args]))
             ELSE IF o.op = "right" THEN Render(Tail(ops), ind + 1, lines)
             ELSE IF o.op = "left" THEN Render(Tail(ops), ind - 1, lines)
             ELSE lines

\* PythonSpadeCode.generate_agent
GenerateAgent(agent) ==
    << AddLineF("class {agent.name}(spade.agent.Agent):", <<agent.name>>),
           IndentRight >>
    \o AddAgentConstructor(agent) \o <<AddNewline>>
    \o AddMessageUtils \o <<AddNewline>>
    \o AddAgentSetup(agent) \o <<AddNewline>>
    \o AddBackupBehaviour(agent) \o <<AddNewline>>
    \o Flatten([k \in 1..Len(agent.setup_behaviours) |->
           AddAgentBehaviour(agent.setup_behaviours[k], "spade.behaviour.OneShotBehaviour")
           \o <<AddNewline>>])
    \o Flatten([k \in 1..Len(agent.one_time_behaviours) |->
           AddAgentBehaviour(agent.one_time_behaviours[k], "spade.behaviour.TimeoutBehaviour")
           \o <<AddNewline>>])
    \o Flatten([k \in 1..Len(agent.cyclic_behaviours) |->
           AddAgentBehaviour(agent.cyclic_behaviours[k], "spade.behaviour.PeriodicBehaviour")
           \o <<AddNewline>>])
    \o Flatten([k \in 1..Len(agent.message_received_behaviours) |->
           AddAgentBehaviour(agent.message_received_behaviours[k], "spade.behaviour.CyclicBehaviour")
           \o <<AddNewline>>])
    \o <<IndentLeft>>

\* PythonSpadeCode.__init__: the calls made for the list of agents.
SpadeOps(agents) ==
    IF agents = <<>> THEN <<>>
    ELSE SpadeImports
         \o Flatten([k \in 1..Len(agents) |->
                        <<AddNewline, AddNewline>> \o GenerateAgent(agents[k])])


(***************************************************************************)
(* SpadeCode, the emitter of src/generating/spade.py.  Its Argument has    *)
(* the flags is_agent_param and is_enum where the Argument of              *)
(* PythonSpadeCode has type_in_op: the flags are read here as membership   *)
(* of AgentParam and EnumValue in type_in_op.                              *)
(***************************************************************************)
\* SpadeCode.agent_param
AgentParamPrefix(arg) == IF "AgentParam" \in arg.type_in_op THEN "self.agent." ELSE ""

\* SpadeCode.parse_instruction_arg
ParseInstructionArg(arg) ==
    IF "AgentParam" \in arg.type_in_op THEN "self.agent." \o arg.expr
    ELSE IF "EnumValue" \in arg.type_in_op THEN "\"" \o arg.expr \o "\""
    ELSE arg.expr

\* SpadeCode.add_block, the final else: the isinstance chain on the
\* statement, which ends without an else.
SpadeTwoArgLines(stmt) ==
    LET a1 == ParseInstructionArg(stmt.arg1)
        a2 == ParseInstructionArg(stmt.arg2)
    IN  IF stmt.op \in DOMAIN Comparisons
            THEN << AddLineF(Comparisons[stmt.op], <<a1, a2>>) >>
        ELSE IF stmt.op = "Add" THEN << AddLineF("{arg1} += {arg2}", <<a1, a2>>) >>
        ELSE IF stmt.op = "Subtract" THEN << AddLineF("{arg1} -= {arg2}", <<a1, a2>>) >>
        ELSE IF stmt.op = "Multiply" THEN << AddLineF("{arg1} *= {arg2}", <<a1, a2>>) >>
        ELSE IF stmt.op = "Divide" THEN << AddLineF("{arg1} /= {arg2}", <<a1, a2>>) >>
        ELSE IF stmt.op = "Set" THEN << AddLineF("{arg1} = {arg2}", <<a1, a2>>) >>
        ELSE <<>>

\* SpadeCode.add_block
RECURSIVE SpadeAddBlock(_)
\* The calls made for one statement of the block.
SpadeAddStatement(stmt) ==
    IF stmt.op = "Block"
        THEN <<IndentRight>> \o SpadeAddBlock(stmt.statements) \o <<IndentLeft>>
    ELSE IF stmt.op = "Declaration"
        THEN << AddLineF("{statement.name} = {self.agent_param(statement.value)}{statement.value.expr}",
                         <<stmt.name, AgentParamPrefix(stmt.value), stmt.value.expr>>) >>
    ELSE IF stmt.op = "AddElement"
        THEN << AddLineF("self.agent.{statement.arg1.expr}.append({statement.arg2.expr})",
                         <<stmt.arg1.expr, stmt.arg2.expr>>) >>
    ELSE SpadeTwoArgLines(stmt)

SpadeAddBlock(block) ==
    IF block = <<>> THEN << AddLine("...") >>
    ELSE Flatten([k \in 1..Len(block) |-> SpadeAddStatement(block[k])])

\* SpadeCode.add_agent_behaviour
SpadeAddAgentBehaviour(behaviour, behaviour_type) ==
    << AddLineF("class {behaviour.name}({behaviour_type}):",
                <<behaviour.name, behaviour_type>>),
       IndentRight >>
    \o (IF behaviour.actions = <<>> THEN << AddLine("...") >> ELSE <<>>)
    \o Flatten([k \in 1..Len(behaviour.actions) |->
                   << AddLineF("async def {action.name}(self):", <<behaviour.actions[k].name>>),
                      IndentRight >>
                   \o SpadeAddBlock(behaviour.actions[k].main_block)
                   \o << IndentLeft, AddNewline >>])
    \o << AddLine("async def run(self):"), IndentRight >>
    \o (IF behaviour.actions = <<>> THEN << AddLine("...") >> ELSE <<>>)
    \o [k \in 1..Len(behaviour.actions) |->
           AddLineF("await self.{action.name}()", <<behaviour.actions[k].name>>)]
    \o << IndentLeft, IndentLeft >>

\* PythonGraph.add_required_imports
GraphImports ==
    << AddLine("import random"),
       AddLine("import uuid"),
       AddLine("import numpy") >>

\* The emitted "_num_X = ..." line of one agent type (lines 57-69).
NumLine(agent, size) ==
    IF agent.amount.kind = "const"
        THEN AddLineF("_num_{agent.name} = {agent.amount.value}",
                      <<agent.name, ToString(agent.amount.value)>>)
    ELSE IF agent.amount.kind = "percent"
        THEN AddLineF("_num_{agent.name} = round({agent.amount.value} / 100 * {graph.size})",
                      <<agent.name, ToString(agent.amount.value), ToString(size)>>)
    ELSE Raise("Unknown agent amount type")

\* The emitted "num_connections = ..." line of one agent type (lines 82-104).
ConnectionsLine(c) ==
    IF c.kind = "const"
        THEN AddLineF("num_connections = {agent.connections.value}", <<ToString(c.value)>>)
    ELSE IF c.kind = "normal"
        THEN AddLineF("num_connections = int(numpy.random.normal({agent.connections.mean}, {agent.connections.std_dev}))",
                      <<"mean", "std_dev">>)
    ELSE IF c.kind = "exp"
        THEN AddLineF("num_connections = int(numpy.random.exponential(1 / {agent.connections.lambda_}))",
                      <<"lambda_">>)
    ELSE IF c.kind = "uniform"
        THEN AddLineF("num_connections = int(random.uniform({agent.connections.a}, {agent.connections.b}))",
                      <<ToString(c.a), ToString(c.b)>>)
    ELSE Raise("Unknown connection amount")

\* The loop emitted for one agent type (lines 79-120).
StatAgentLoop(agent) ==
    << AddLineF("for _ in range(_num_{agent.name}):", <<agent.name>>),
       IndentRight,
       ConnectionsLine(agent.connections),
       AddLine("num_connections = max(min(num_connections, len(jids) - 1), 0)"),
       AddLine("jid = jids[next_agent_idx]"),
       AddLine("agents.append({"),
       IndentRight,
       AddLine("\"jid\": jid,"),
       AddLineF("\"type\": \"{agent.name}\",", <<agent.name>>),
       AddLine("\"connections\": random.sample([other_jid for other_jid in jids if other_jid != jid], num_connections),"),
       IndentLeft,
       AddLine("})"),
       AddLine("next_agent_idx += 1"),
       IndentLeft >>

\* PythonGraph.add_statistical_graph
StatOps_ReturnKeepsIndent(g) ==
    << AddLine("def generate_graph_structure(domain):"), IndentRight >>
    \o IF g.agents = <<>>
          THEN << AddLine("return []") >>
          ELSE [k \in 1..Len(g.agents) |-> NumLine(g.agents[k], g.size)]
               \o << AddLineF("num_agents = {\" + \".join(num_agents_expr)}",
                              [k \in 1..Len(g.agents) |-> g.agents[k].name]),
                     AddLine("random_id = str(uuid.uuid4())[:5]"),
                     AddLine("jids = [f\"{i}_{random_id}@{domain}\" for i in range(num_agents)]"),
                     AddLine("agents = []"),
                     AddLine("next_agent_idx = 0") >>
               \o Flatten([k \in 1..Len(g.agents) |-> StatAgentLoop(g.agents[k])])
               \o << AddLine("return agents"), IndentLeft >>

StatOps(g) ==
    << AddLine("def generate_graph_structure(domain):"), IndentRight >>
    \o IF g.agents = <<>>
          THEN << AddLine("return []"), IndentLeft >>
          ELSE [k \in 1..Len(g.agents) |-> NumLine(g.agents[k], g.size)]
               \o << AddLineF("num_agents = {\" + \".join(num_agents_expr)}",
                              [k \in 1..Len(g.agents) |-> g.agents[k].name]),
                     AddLine("random_id = str(uuid.uuid4())[:5]"),
                     AddLine("jids = [f\"{i}_{random_id}@{domain}\" for i in range(num_agents)]"),
                     AddLine("agents = []"),
                     AddLine("next_agent_idx = 0") >>
               \o Flatten([k \in 1..Len(g.agents) |-> StatAgentLoop(g.agents[k])])
               \o << AddLine("return agents"), IndentLeft >>

\* PythonGraph.add_matrix_graph
MatrixOps(g) ==
    << AddLine("def generate_graph_structure(domain):"), IndentRight >>
    \o IF g.agents = <<>>
          THEN << AddLine("return []"), IndentLeft >>
          ELSE << IF g.scale.defined
                     THEN AddLineF("scale_factor = {graph.scale}", <<ToString(g.scale.value)>>)
                     ELSE AddLine("scale_factor = 1"),
                  AddLineF("n_agent_types = {len(graph.agents)}", <<ToString(Len(g.agents))>>),
                  AddLine("graph_size = scale_factor * n_agent_types"),
                  AddLine("random_id = str(uuid.uuid4())[:5]"),
                  AddLine("jids = [f\"{i}_{random_id}@{domain}\" for i in range(graph_size)]"),
                  AddLine("agents = []"),
                  AddLine("indx_sets = []") >>
               \o [k \in 1..Len(g.agents) |->
                      AddLineF("indx_sets.append({adj_indx})",
                               <<ToString(AdjIndx(g.agents[k].adj_row))>>)]
               \o << AddLine("for base_agent_index in range(n_agent_types):"),
                     IndentRight,
                     AddLine("indices = indx_sets[base_agent_index]"),
                     AddLine("for shift in range(1, scale_factor):"),
                     IndentRight,
                     AddLine("indices.append((base_agent_index + shift * n_agent_types) % graph_size)"),
                     IndentLeft,
                     AddLine("for shift in range(scale_factor):"),
                     IndentRight,
                     AddLine("jid = jids[base_agent_index + shift * n_agent_types]"),
                     AddLine("connections = []"),
                     AddLine("for i in indices:"),
                     IndentRight,
                     AddLine("connections.append(jids[(i + shift * n_agent_types) % graph_size])"),
                     IndentLeft,
                     AddLine("agents.append({"),
                     IndentRight,
                     AddLine("\"jid\": jid,"),
                     AddLineF("\"type\": \"{agent.name}\",", <<EmittedTypeName(g)>>),
                     AddLine("\"connections\": connections,"),
                     IndentLeft,
                     AddLine("})"),
                     IndentLeft,
                     IndentLeft,
                     AddLine("return agents"),
                     IndentLeft >>

\* PythonGraph.generate_graph.  A graph handed to the emitter is
\* [kind, g]: kind "statistical" or "matrix", or [kind |-> "none"] for None.
GenerateGraph(graph) ==
    IF graph.kind = "statistical" THEN StatOps(graph.g)
    ELSE IF graph.kind = "matrix" THEN MatrixOps(graph.g)
    ELSE << Raise("Unknown graph type") >>

\* PythonGraph.__init__: the calls made for the graph.
GraphOps(graph) ==
    IF graph.kind = "none" THEN <<>>
    ELSE GraphImports \o <<AddNewline, AddNewline>> \o GenerateGraph(graph)

(***************************************************************************)
(* The IRs the emitters are run on: those of an empty program, of agents   *)
(* with and without a float parameter, of statistical and matrix graphs    *)
(* with zero, one and two agent types.                                     *)
(***************************************************************************)
\* An agent of the IR: its behaviours are the values of the four dicts of
\* the Agent, in insertion order.
EmitAgent(name, init_floats, setup, one_time, cyclic, message_received) ==
    [ name |-> name, init_floats |-> init_floats,
      setup_behaviours |-> setup, one_time_behaviours |-> one_time,
      cyclic_behaviours |-> cyclic, message_received_behaviours |-> message_received ]

EmitBehaviour(name, kind, delay, period, type, performative, actions) ==
    [ name |-> name, kind |-> kind, delay |-> delay, period |-> period,
      received_message |-> [type |-> type, performative |-> performative],
      actions |-> actions ]

EmitAction ==
    [ name |-> "grow", kind |-> "modify_self",
      send_message |-> [type |-> "", performative |-> "", float_params |-> ""],
      main_block |-> << [op |-> "Add", arg1 |-> Arg("x", {"AgentParam", "Float"}),
                                       arg2 |-> Arg("1", {"Float"})] >> ]

\* The arguments the statements below are made of.
FloatX == Arg("x", {"AgentParam", "Float"})

ListL == Arg("l", {"AgentParam", "List"})

Num(n) == Arg(n, {"Float"})

Instruction(op, a1, a2, a3) == [op |-> op, arg1 |-> a1, arg2 |-> a2, arg3 |-> a3]

Block(statements) == [op |-> "Block", statements |-> statements]

\* The kinds of statement that open a conditional or loop body.
HeaderOps == <<"IfGreaterThan", "IfGreaterThanOrEqual", "IfLessThan", "IfLessThanOrEqual",
               "IfEqual", "IfNotEqual", "WhileGreaterThan", "WhileGreaterThanOrEqual",
               "WhileLessThan", "WhileLessThanOrEqual", "WhileEqual", "WhileNotEqual",
               "IfInList", "IfNotInList">>

\* An action whose block holds a statement of every kind add_block
\* translates: each header with a body, one of them nested three deep with
\* an empty block innermost.
EmitActionEveryKind ==
    [ name |-> "every", kind |-> "modify_self",
      send_message |-> [type |-> "", performative |-> "", float_params |-> ""],
      main_block |->
          << [op |-> "Declaration", name |-> "d", value |-> Num("1")],
             Instruction("IfGreaterThan", FloatX, Num("0"), Num("0")),
             Block(<< Instruction("Add", FloatX, Num("1"), Num("0")),
                      Instruction("WhileLessThan", Num("d"), Num("3"), Num("0")),
                      Block(<< Instruction("Add", Num("d"), Num("1"), Num("0")),
                               Instruction("IfInList", ListL, FloatX, Num("0")),
                               Block(<<>>) >>),
                      Instruction("RemoveNElements", ListL, Num("d"), Num("0")) >>) >>
          \o Flatten([k \in 1..Len(HeaderOps) |->
                        << Instruction(HeaderOps[k], ListL, FloatX, Num("0")),
                           Block(<< Instruction("Divide", FloatX, Num("d"), Num("0")) >>) >>])
          \o << Instruction("Subtract", FloatX, Num("1"), Num("0")),
                Instruction("Multiply", FloatX, Num("2"), Num("0")),
                Instruction("AddElement", ListL, FloatX, Num("0")),
                Instruction("RemoveElement", ListL, FloatX, Num("0")),
                Instruction("Length", FloatX, ListL, Num("0")),
                Instruction("RemoveNElements", ListL, FloatX, Num("0")),
                Instruction("Subset", ListL, Arg("connections", {"AgentParam", "ConnectionList"}), FloatX),
                Instruction("Clear", ListL, Num("0"), Num("0")),
                Instruction("Set", FloatX, Num("d"), Num("0")),
                Instruction("Set", Arg("m", {"AgentParam", "Message"}),
                                   Arg("ml", {"AgentParam", "MessageList"}), Num("0")),
                Instruction("Round", FloatX, Num("0"), Num("0")),
                Instruction("UniformDist", FloatX, Num("0"), Num("1")),
                Instruction("NormalDist", FloatX, Num("0"), Num("1")),
                Instruction("ExpDist", FloatX, Num("2"), Num("0")) >> ]

\* A send action: its block sends to a connection and to a connection list.
EmitActionSend ==
    [ name |-> "tell", kind |-> "send_msg",
      send_message |-> [type |-> "t", performative |-> "p", float_params |-> ""],
      main_block |->
          << Instruction("Send", Arg("c", {"AgentParam", "Connection"}), Num("0"), Num("0")),
             Instruction("Send", Arg("connections", {"AgentParam", "ConnectionList"}), Num("0"), Num("0")) >> ]

\* An action with an empty block.
EmitActionEmpty ==
    [ name |-> "idle", kind |-> "modify_self",
      send_message |-> [type |-> "", performative |-> "", float_params |-> ""],
      main_block |-> <<>> ]

\* An action whose block holds, between two Add statements, a statement of
\* a class add_block has no case for.
EmitActionUnknownKind ==
    [ name |-> "odd", kind |-> "modify_self",
      send_message |-> [type |-> "", performative |-> "", float_params |-> ""],
      main_block |->
          << Instruction("Add", FloatX, Num("1"), Num("0")),
             Instruction("Modulo", FloatX, Num("2"), Num("0")),
             Instruction("Add", FloatX, Num("3"), Num("0")) >> ]

EmitAgentLists ==
    { <<>>,
      << EmitAgent("a1", <<>>,
             << EmitBehaviour("s1", "setup", "", "", "", "", <<EmitActionEveryKind, EmitActionEmpty>>) >>,
             <<>>,
             <<>>,
             << EmitBehaviour("m1", "message_received", "", "", "t", "p",
                              <<EmitActionSend, EmitActionEveryKind>>) >>),
         EmitAgent("a2", <<>>, <<>>, <<>>, <<>>, <<>>) >>,
      << EmitAgent("a1", <<>>,
             <<>>,
             <<>>,
             << EmitBehaviour("c1", "cyclic", "", "2", "", "", <<EmitActionUnknownKind>>) >>,
             <<>>) >>,
      << EmitAgent("a1", <<>>, <<>>, <<>>, <<>>, <<>>) >>,
      << EmitAgent("a1", <<[name |-> "x", value |-> "1.5"]>>, <<>>, <<>>, <<>>, <<>>),
         EmitAgent("a2", <<>>, <<>>, <<>>, <<>>, <<>>) >>,
      << EmitAgent("a1", <<[name |-> "x", value |-> "1.5"]>>,
             << EmitBehaviour("s2", "setup", "", "", "", "", <<EmitAction>>),
                EmitBehaviour("s1", "setup", "", "", "", "", <<>>) >>,
             << EmitBehaviour("o1", "one_time", "5", "", "", "", <<>>) >>,
             << EmitBehaviour("c1", "cyclic", "", "2", "", "", <<>>) >>,
             << EmitBehaviour("m1", "message_received", "", "", "t", "p", <<>>) >>) >>,
      << EmitAgent("a1", <<>>,
             <<>>,
             <<>>,
             << EmitBehaviour("c2", "cyclic", "", "3", "", "", <<>>) >>,
             << EmitBehaviour("m2", "message_received", "", "", "t", "q", <<>>),
                EmitBehaviour("m1", "message_received", "", "", "t", "p", <<>>) >>),
         EmitAgent("a2", <<>>,
             << EmitBehaviour("s1", "setup", "", "", "", "", <<>>) >>,
             << EmitBehaviour("o2", "one_time", "7", "", "", "", <<>>),
                EmitBehaviour("o1", "one_time", "5", "", "", "", <<>>) >>,
             <<>>,
             <<>>) >> }

\* Graphs of a class, or with an amount of a class, the emitter has no case
\* for.
EmitGraphsUnknownVariant ==
    { [kind |-> "other", g |-> [size |-> 10, agents |-> <<>>]],
      [kind |-> "statistical",
       g |-> [size |-> 10,
              agents |-> << [name |-> "A", amount |-> [kind |-> "const", value |-> 1],
                             connections |-> NoConnections],
                            [name |-> "B", amount |-> [kind |-> "other", value |-> 1],
                             connections |-> NoConnections] >>]],
      [kind |-> "statistical",
       g |-> [size |-> 10,
              agents |-> << [name |-> "A", amount |-> [kind |-> "const", value |-> 1],
                             connections |-> [kind |-> "other", value |-> 0, a |-> 0, b |-> 0]] >>]] }

EmitGraphs ==
    {[kind |-> "none"]}
        \cup EmitGraphsUnknownVariant
    \cup {[kind |-> "statistical", g |-> [size |-> 10, agents |-> ag]] :
             ag \in StatAgents({[kind |-> "const", value |-> 2],
                                [kind |-> "percent", value |-> 60]},
                               ConnectionAmounts)}
    \cup {[kind |-> "matrix", g |-> [agents |-> ag, scale |-> sc]] :
             ag \in UNION {MatrixAgents(n) : n \in 0..2}, sc \in Scales}

\* get_spade_code once parse_lines has returned: PythonSpadeCode is
\* constructed on parsed.agents.
EmitInit ==
    /\ em_agents \in EmitAgentLists
    /\ em_graph \in EmitGraphs
    /\ em_pc = "spade"
    /\ em_ops = SpadeOps(em_agents)
    /\ indent = 0
    /\ code_lines = <<>>
    /\ agent_code_lines = <<>>

EmitParked ==
    /\ em_agents = <<>>
    /\ em_graph = [kind |-> "none"]
    /\ em_pc = "parked"
    /\ em_ops = <<>>
    /\ indent = 0
    /\ code_lines = <<>>
    /\ agent_code_lines = <<>>

Emitting == em_pc \in {"spade", "graph"} /\ em_ops # <<>>

\* PythonCode.add_line
DoAddLine ==
    /\ Emitting
    /\ Head(em_ops).op = "line"
    /\ code_lines' = Append(code_lines,
           [indent |-> indent, text |-> Head(em_ops).text, args |-> Head(em_ops).args])
    /\ em_ops' = Tail(em_ops)
    /\ UNCHANGED <<em_agents, em_graph, em_pc, indent, agent_code_lines>>
    /\ UNCHANGED notEmitVars

\* PythonCode.indent_right
DoIndentRight ==
    /\ Emitting
    /\ Head(em_ops).op = "right"
    /\ indent' = indent + 1
    /\ em_ops' = Tail(em_ops)
    /\ UNCHANGED <<em_agents, em_graph, em_pc, code_lines, agent_code_lines>>
    /\ UNCHANGED notEmitVars

\* PythonCode.indent_left
DoIndentLeft ==
    /\ Emitting
    /\ Head(em_ops).op = "left"
    /\ indent' = indent - 1
    /\ em_ops' = Tail(em_ops)
    /\ UNCHANGED <<em_agents, em_graph, em_pc, code_lines, agent_code_lines>>
    /\ UNCHANGED notEmitVars

\* raise Exception(...) in a generating method: the exception leaves the
\* constructor and get_spade_code, which returns no code.
DoRaise ==
    /\ Emitting
    /\ Head(em_ops).op = "raise"
    /\ em_pc' = "failed"
    /\ em_ops' = <<>>
    /\ UNCHANGED <<em_agents, em_graph, indent, code_lines, agent_code_lines>>
    /\ UNCHANGED notEmitVars

\* PythonSpadeCode(...).code_lines is taken and PythonGraph is constructed
\* on parsed.graph: a new emitter, at indentation 0 with no lines.
ConstructPythonGraph ==
    /\ em_pc = "spade"
    /\ em_ops = <<>>
    /\ agent_code_lines' = code_lines
    /\ code_lines' = <<>>
    /\ indent' = 0
    /\ em_ops' = GraphOps(em_graph)
    /\ em_pc' = "graph"
    /\ UNCHANGED <<em_agents, em_graph>>
    /\ UNCHANGED notEmitVars

\* get_spade_code returns Code(agent_code_lines, code_lines).
ReturnCode ==
    /\ em_pc = "graph"
    /\ em_ops = <<>>
    /\ em_pc' = "done"
    /\ UNCHANGED <<em_agents, em_graph, em_ops, indent, code_lines, agent_code_lines>>
    /\ UNCHANGED notEmitVars

EmitNext ==
    \/ DoAddLine
    \/ DoIndentRight
    \/ DoIndentLeft
    \/ DoRaise
    \/ ConstructPythonGraph
    \/ ReturnCode


(***************************************************************************)
(* get_spade_code, called twice with the same ParsedData, with the list   *)
(* objects on a heap.  The generators read the intermediate               *)
(* representation through attribute access inside f-strings; the two      *)
(* places where they build lists out of it are the enum parameters of     *)
(* add_agent_constructor and the adjacency rows of                        *)
(* add_matrix_graph_generator.  ir_heap holds every list object: object   *)
(* EnumValuesId is enum_param.enum_values, object RowId(k) is             *)
(* graph.agents[k].adj_row.row, and the objects after them are the ones   *)
(* the generators allocate.  A local name is bound to a list object or    *)
(* to a string.                                                            *)
(***************************************************************************)
EnumValues == {[value |-> v, percentage |-> "50"] : v \in {"a", "b"}}

EnumValueLists == UNION {[1..n -> EnumValues] : n \in 0..MaxEnumValues}

EnumValuesId == 1

RowId(k) == 1 + k

NumRows == Len(ir_start) - 1

Unbound == [ref |-> 0, str |-> ""]

BoundTo(id) == [ref |-> id, str |-> ""]

BoundToStr(text) == [ref |-> 0, str |-> text]

NoLocals == [values |-> Unbound, percentages |-> Unbound, adj_indx |-> Unbound]

RECURSIVE JoinComma(_)
\* ", ".join(strings)
JoinComma(strings) ==
    IF strings = <<>> THEN ""
    ELSE IF Len(strings) = 1 THEN strings[1]
    ELSE strings[1] \o ", " \o JoinComma(Tail(strings))

\* The result of an expression that makes a list: the heap with the new
\* object, and the object the name is bound to.
EmptyList_SameObject(h, iterated) == [heap |-> h, bound |-> iterated]

\* "values = []", "percentages = []" (iterated: the list the loop that
\* follows reads; the new list is another object)
EmptyList(h, iterated) == [heap |-> Append(h, <<>>), bound |-> Len(h) + 1]

\* "[True if x == 1 else False for x in agent.adj_row.row]"
Comprehension(h, row) ==
    [heap |-> Append(h, [i \in 1..Len(h[row]) |-> h[row][i] = 1]), bound |-> Len(h) + 1]

\* "list(compress(range(len(adj_indx)), adj_indx))"
Compress(h, selectors) ==
    [heap |-> Append(h, SelectSeq([i \in 1..Len(h[selectors]) |-> i - 1],
                                  LAMBDA i : h[selectors][i + 1])),
     bound |-> Len(h) + 1]

\* "lst.append(x)": the object changes in place
ListAppend(h, id, x) == [h EXCEPT ![id] = Append(@, x)]

IrInit ==
    /\ \E enum_values \in EnumValueLists, n \in 0..MaxTypes :
         \E rows \in [1..n -> AdjRows(n)] :
            ir_start = <<enum_values>> \o rows
    /\ ir_heap = ir_start
    /\ ir_locals = NoLocals
    /\ ir_j = 0
    /\ ir_k = 0
    /\ ir_pc = "values"
    /\ ir_lines = <<>>
    /\ ir_codes = <<>>

IrParked ==
    /\ ir_start = <<>>
    /\ ir_heap = <<>>
    /\ ir_locals = NoLocals
    /\ ir_j = 0
    /\ ir_k = 0
    /\ ir_pc = "parked"
    /\ ir_lines = <<>>
    /\ ir_codes = <<>>

\* values = []; percentages = []
BindValueLists ==
    /\ ir_pc = "values"
    /\ LET v == EmptyList(ir_heap, EnumValuesId)
           p == EmptyList(v.heap, EnumValuesId)
       IN  /\ ir_heap' = p.heap
           /\ ir_locals' = [ir_locals EXCEPT !.values = BoundTo(v.bound),
                                             !.percentages = BoundTo(p.bound)]
    /\ ir_j' = 1
    /\ ir_pc' = "enum_value"
    /\ UNCHANGED <<ir_start, ir_k, ir_lines, ir_codes>>
    /\ UNCHANGED notIrVars

\* one pass of "for enum_value in enum_param.enum_values": the two appends
AppendEnumValue ==
    /\ ir_pc = "enum_value"
    /\ ir_j <= Len(ir_heap[EnumValuesId])
    /\ LET enum_value == ir_heap[EnumValuesId][ir_j]
           h1 == ListAppend(ir_heap, ir_locals.values.ref, "\"" \o enum_value.value \o "\"")
       IN  ir_heap' = ListAppend(h1, ir_locals.percentages.ref, enum_value.percentage)
    /\ ir_j' = ir_j + 1
    /\ UNCHANGED <<ir_start, ir_locals, ir_k, ir_pc, ir_lines, ir_codes>>
    /\ UNCHANGED notIrVars

\* after the loop: the two names are rebound to strings, and the line added
AddEnumLine ==
    /\ ir_pc = "enum_value"
    /\ ir_j > Len(ir_heap[EnumValuesId])
    /\ LET values == "[" \o JoinComma(ir_heap[ir_locals.values.ref]) \o "]"
           percentages == "[" \o JoinComma(ir_heap[ir_locals.percentages.ref]) \o "]"
       IN  /\ ir_locals' = [ir_locals EXCEPT !.values = BoundToStr(values),
                                             !.percentages = BoundToStr(percentages)]
           /\ ir_lines' = Append(ir_lines,
                  AddLineF("self.{enum_param.name} = kwargs.get(\"{enum_param.name}\", random.choices({values}, {percentages})[0])",
                           <<"e", "e", values, percentages>>))
    /\ ir_k' = 1
    /\ ir_pc' = IF NumRows = 0 THEN "return" ELSE "comprehension"
    /\ UNCHANGED <<ir_start, ir_heap, ir_j, ir_codes>>
    /\ UNCHANGED notIrVars

\* adj_indx = [True if x == 1 else False for x in agent.adj_row.row]
BindComprehension ==
    /\ ir_pc = "comprehension"
    /\ LET c == Comprehension(ir_heap, RowId(ir_k))
       IN  /\ ir_heap' = c.heap
           /\ ir_locals' = [ir_locals EXCEPT !.adj_indx = BoundTo(c.bound)]
    /\ ir_pc' = "compress"
    /\ UNCHANGED <<ir_start, ir_j, ir_k, ir_lines, ir_codes>>
    /\ UNCHANGED notIrVars

\* adj_indx = list(compress(range(len(adj_indx)), adj_indx))
BindCompress ==
    /\ ir_pc = "compress"
    /\ LET c == Compress(ir_heap, ir_locals.adj_indx.ref)
       IN  /\ ir_heap' = c.heap
           /\ ir_locals' = [ir_locals EXCEPT !.adj_indx = BoundTo(c.bound)]
    /\ ir_pc' = "indx_line"
    /\ UNCHANGED <<ir_start, ir_j, ir_k, ir_lines, ir_codes>>
    /\ UNCHANGED notIrVars

\* self.add_line(f"indx_sets.append({adj_indx})"), and the next agent
AddIndxLine ==
    /\ ir_pc = "indx_line"
    /\ ir_lines' = Append(ir_lines,
           AddLineF("indx_sets.append({adj_indx})", <<ToString(ir_heap[ir_locals.adj_indx.ref])>>))
    /\ ir_k' = ir_k + 1
    /\ ir_pc' = IF ir_k < NumRows THEN "comprehension" ELSE "return"
    /\ UNCHANGED <<ir_start, ir_heap, ir_locals, ir_j, ir_codes>>
    /\ UNCHANGED notIrVars

\* get_spade_code returns the lines; the locals are gone
ReturnLines ==
    /\ ir_pc = "return"
    /\ ir_codes' = Append(ir_codes, ir_lines)
    /\ ir_locals' = NoLocals
    /\ ir_pc' = "returned"
    /\ UNCHANGED <<ir_start, ir_heap, ir_j, ir_k, ir_lines>>
    /\ UNCHANGED notIrVars

\* the caller calls get_spade_code again with the same ParsedData
GenerateAgain ==
    /\ ir_pc = "returned"
    /\ Len(ir_codes) < 2
    /\ ir_lines' = <<>>
    /\ ir_j' = 0
    /\ ir_k' = 0
    /\ ir_pc' = "values"
    /\ UNCHANGED <<ir_start, ir_heap, ir_locals, ir_codes>>
    /\ UNCHANGED notIrVars

IrNext ==
    \/ BindValueLists
    \/ AppendEnumValue
    \/ AddEnumLine
    \/ BindComprehension
    \/ BindCompress
    \/ AddIndxLine
    \/ ReturnLines
    \/ GenerateAgain

(***************************************************************************)
(* The list statements of the generated agent code.                        *)
(*                                                                         *)
(* PythonSpadeCode.add_block emits, for SUBS and REMEN, the Python         *)
(* statements below; they are run here on a heap of list objects and       *)
(* element objects, so that sharing between the lists is visible.  The     *)
(* elements of a list are messages (dicts, mutable) or identifiers (str,   *)
(* immutable).                                                             *)
(***************************************************************************)
ElemKinds == {"dict", "str"}

ElemValues == {10, 20}

\* The number argument, in halves: from -1.5 up to past the longest list.
NumHalves == (0 - 3) .. (2 * MaxLen + 3)

\* The lists a statement is run on: up to MaxLen elements of one kind.
ElemLists ==
    UNION {[1..n -> [kind : {k}, value : ElemValues]] : n \in 0..MaxLen, k \in ElemKinds}

IsMutable(elem) == objects[elem].kind = "dict"

\* copy.deepcopy(elem): a new object for a dict, the object itself for a str.
DeepCopy_SameObject(elem, fresh) == elem

DeepCopy(elem, fresh) ==
    IF IsMutable(elem) THEN fresh ELSE elem

\* [copy.deepcopy(elem) for elem in smp]: the objects allocated, and the list built.
Allocated(smp) ==
    LET copied == SelectSeq(smp, IsMutable)
    IN  [j \in 1..Len(copied) |-> objects[copied[j]]]

Copies(smp) ==
    [j \in 1..Len(smp) |->
        DeepCopy(smp[j], Len(objects) + Len(SelectSeq(SubSeq(smp, 1, j), IsMutable)))]

\* L[:len(L) - n]
Truncate_KeepsN(l, n) == SubSeq(l, 1, n)

Truncate(l, n) == SubSeq(l, 1, Len(l) - n)

\* random.shuffle(L): any order of the same elements.
Shuffles(l) ==
    {[i \in 1..Len(l) |-> l[p[i]]] :
        p \in {f \in [1..Len(l) -> 1..Len(l)] : Injective(f)}}

\* round(num)
RoundNum == PyRound(num_halves, 2)

\* The source list is list object 1 and holds the objects 1..n in order; the
\* destination name is bound to list object 2, which is empty or holds the
\* same elements.
ListInit ==
    /\ statement \in {"Subset", "RemoveNElements"}
    /\ elems_in \in ElemLists
    /\ objects = elems_in
    /\ \E d \in {<<>>, [i \in 1..Len(elems_in) |-> i]} :
           list_objects = << [i \in 1..Len(elems_in) |-> i], d >>
    /\ from_list = 1
    /\ to_list = 2
    /\ arg1 = 1
    /\ taken = 0
    /\ num_halves \in NumHalves
    /\ rt_pc = "start"

ListParked ==
    /\ statement = "parked"
    /\ elems_in = <<>>
    /\ objects = <<>>
    /\ list_objects = <<>>
    /\ from_list = 0
    /\ to_list = 0
    /\ arg1 = 0
    /\ taken = 0
    /\ num_halves = 0
    /\ rt_pc = "parked"

\* if round(num) > 0:
\*     to_list = [copy.deepcopy(elem) for elem in
\*                random.sample(from_list, min(round(num), len(from_list)))]
SubsetSample ==
    /\ rt_pc = "start"
    /\ statement = "Subset"
    /\ RoundNum > 0
    /\ \E smp \in Sample(list_objects[from_list],
                         Min(RoundNum, Len(list_objects[from_list]))) :
           /\ objects' = objects \o Allocated(smp)
           /\ list_objects' = Append(list_objects, Copies(smp))
    /\ to_list' = Len(list_objects) + 1
    /\ rt_pc' = "done"
    /\ UNCHANGED <<taken, statement, from_list, arg1, num_halves, elems_in>>
    /\ UNCHANGED notListVars

\* else:
\*     to_list = []
SubsetEmpty ==
    /\ rt_pc = "start"
    /\ statement = "Subset"
    /\ ~(RoundNum > 0)
    /\ list_objects' = Append(list_objects, <<>>)
    /\ to_list' = Len(list_objects) + 1
    /\ rt_pc' = "done"
    /\ UNCHANGED <<taken, statement, objects, from_list, arg1, num_halves, elems_in>>
    /\ UNCHANGED notListVars

\* A later Set of a message name from the destination list, a list of
\* messages (every message of it passes the filter):
\* if len(list(filter(..., to_list))):
\*     msg = copy.deepcopy(random.choice(list(filter(..., to_list))))
\* else:
\*     return
SetFromList ==
    /\ rt_pc = "done"
    /\ statement = "Subset"
    /\ \A i \in 1..Len(elems_in) : elems_in[i].kind = "dict"
    /\ IF list_objects[to_list] # <<>>
          THEN /\ \E j \in 1..Len(list_objects[to_list]) :
                      LET elem == list_objects[to_list][j]
                      IN  /\ taken' = DeepCopy(elem, Len(objects) + 1)
                          /\ objects' = IF IsMutable(elem) THEN Append(objects, objects[elem])
                                        ELSE objects
               /\ rt_pc' = "taken"
          ELSE /\ rt_pc' = "returned"
               /\ UNCHANGED <<taken, objects>>
    /\ UNCHANGED <<statement, list_objects, from_list, to_list, arg1, num_halves, elems_in>>
    /\ UNCHANGED notListVars

\* A statement after it changes a field of the message taken:
\* msg.body["value"] += 1
MutateTaken ==
    /\ rt_pc = "taken"
    /\ objects' = [objects EXCEPT ![taken].value = @ + 1]
    /\ rt_pc' = "mutated"
    /\ UNCHANGED <<taken, statement, list_objects, from_list, to_list, arg1, num_halves, elems_in>>
    /\ UNCHANGED notListVars

\* if round(arg2) > 0: ... with round(arg2) <= 0: no statement is run.
RemoveNone ==
    /\ rt_pc = "start"
    /\ statement = "RemoveNElements"
    /\ ~(RoundNum > 0)
    /\ rt_pc' = "done"
    /\ UNCHANGED <<taken, statement, objects, list_objects, from_list, to_list, arg1,
                   num_halves, elems_in>>
    /\ UNCHANGED notListVars

\* if round(arg2) < len(arg1):
\*     random.shuffle(arg1)
RemoveShuffle ==
    /\ rt_pc = "start"
    /\ statement = "RemoveNElements"
    /\ RoundNum > 0
    /\ RoundNum < Len(list_objects[arg1])
    /\ \E l \in Shuffles(list_objects[arg1]) :
           list_objects' = [list_objects EXCEPT ![arg1] = l]
    /\ rt_pc' = "shuffled"
    /\ UNCHANGED <<taken, statement, objects, from_list, to_list, arg1, num_halves, elems_in>>
    /\ UNCHANGED notListVars

\*     arg1 = arg1[:len(arg1) - round(arg2)]
RemoveTruncate ==
    /\ rt_pc = "shuffled"
    /\ list_objects' = Append(list_objects, Truncate(list_objects[arg1], RoundNum))
    /\ arg1' = Len(list_objects) + 1
    /\ rt_pc' = "done"
    /\ UNCHANGED <<taken, statement, objects, from_list, to_list, num_halves, elems_in>>
    /\ UNCHANGED notListVars

\* else:
\*     arg1 = []
RemoveAll ==
    /\ rt_pc = "start"
    /\ statement = "RemoveNElements"
    /\ RoundNum > 0
    /\ ~(RoundNum < Len(list_objects[arg1]))
    /\ list_objects' = Append(list_objects, <<>>)
    /\ arg1' = Len(list_objects) + 1
    /\ rt_pc' = "done"
    /\ UNCHANGED <<taken, statement, objects, from_list, to_list, num_halves, elems_in>>
    /\ UNCHANGED notListVars

ListNext ==
    \/ SubsetSample
    \/ SubsetEmpty
    \/ SetFromList
    \/ MutateTaken
    \/ RemoveNone
    \/ RemoveShuffle
    \/ RemoveTruncate
    \/ RemoveAll

(***************************************************************************)
(* One activation of an emitted behaviour class.                           *)
(*                                                                         *)
(* The lines PythonSpadeCode.add_agent_behaviour emits for a behaviour are *)
(* run as Python runs them: a line belongs to the block of the nearest     *)
(* line above it that has a smaller indentation, an empty line belongs to  *)
(* no block, "return" and the end of a function body give control back to  *)
(* the caller.  The spade runtime is the environment: self.receive gives a *)
(* message or None, self.send takes a message.                             *)
(***************************************************************************)
RunText == "async def run(self):"

DefTexts ==
    { "async def {action.name}(self, rcv):", "async def {action.name}(self):",
      "def {action.name}(self, rcv):", "def {action.name}(self):" }

CallTexts ==
    { "await self.{action.name}(rcv)", "await self.{action.name}()",
      "self.{action.name}(rcv)", "self.{action.name}()" }

\* Lines that change nothing the model holds: the debug log lines and "...".
PassTexts ==
    { "if self.agent.logger: self.agent.logger.debug(f\"[{self.agent.jid}] Run action {action.name}\")",
      "if self.agent.logger: self.agent.logger.debug(f\"[{self.agent.jid}] Send message {send} to {receiver}\")",
      "if self.agent.logger: self.agent.logger.debug(f\"[{self.agent.jid}] Send message {send} to {receivers}\")",
      "if self.agent.logger: self.agent.logger.debug(f\"[{self.agent.jid}] Received message: {rcv}\")",
      "..." }

\* The first line from p on that is not empty (Len + 1 if there is none).
RECURSIVE SkipEmpty(_)
SkipEmpty(p) ==
    IF p <= Len(rn_code) /\ rn_code[p].text = "" THEN SkipEmpty(p + 1) ELSE p

\* The first line after the block of indentation more than ind that starts at p.
RECURSIVE BlockEnd(_, _)
BlockEnd(p, ind) ==
    IF p <= Len(rn_code) /\ (rn_code[p].text = "" \/ rn_code[p].indent > ind)
        THEN BlockEnd(p + 1, ind)
        ELSE p

\* The line of the def of a function.
DefLineOf(texts, name) ==
    CHOOSE p \in 1..Len(rn_code) :
        /\ rn_code[p].text \in texts
        /\ (name # "" => rn_code[p].args[1] = name)

\* The number literals of the emitted lines and their values.
NumberLiterals ==
    ("0" :> 0) @@ ("1" :> 1) @@ ("2" :> 2) @@ ("3" :> 3) @@ ("4" :> 4) @@ ("5" :> 5)
    @@ ("6" :> 6) @@ ("7" :> 7) @@ ("8" :> 8) @@ ("9" :> 9) @@ ("10" :> 10)

\* A number or attribute as written in the emitted line: the value Python
\* gives the expression e.
Eval(e) ==
    IF e \in DOMAIN rn_agent THEN rn_agent[e]
    ELSE NumberLiterals[e]

\* a / b for the operands of the model, where b divides a.
Quotient(a, b) == CHOOSE q \in (0 - 10)..10 : q * b = a

\* body["sender"] = str(self.jid) in the emitted get_spade_message: the
\* dict the caller passed, with the sender written into it.
BodyWithSender(body) ==
    [kind |-> "dict", type |-> body.type, performative |-> body.performative, sender |-> "me"]

\* The emitted get_spade_message(receiver_jid, body), add_message_utils;
\* [json |-> d] stands for the text orjson.dumps gives for d.
GetSpadeMessage(receiver_jid, body) ==
    [ kind |-> "Message",
      to |-> receiver_jid,
      metadata |-> [type |-> body.type, performative |-> body.performative],
      body |-> [json |-> [type |-> body.type, performative |-> body.performative,
                          sender |-> "me"]] ]

\* The emitted get_json_from_spade_message(msg): orjson.loads(msg.body)
GetJsonFromSpadeMessage(msg) ==
    [ kind |-> "dict", type |-> msg.body.json.type,
      performative |-> msg.body.json.performative, sender |-> msg.body.json.sender ]

NoFor == [line |-> 0, idx |-> 0]

\* The control state of the activation
ForEnded ==
    /\ rn_for.line # 0
    /\ IF rn_pc > Len(rn_code) THEN TRUE
       ELSE rn_code[rn_pc].indent <= rn_code[rn_for.line].indent

FunctionEnded ==
    IF rn_pc > Len(rn_code) THEN TRUE
    ELSE rn_code[rn_pc].indent <= Head(rn_frames).base

AtLine(texts) ==
    /\ rn_status = "running"
    /\ ~ForEnded
    /\ ~FunctionEnded
    /\ rn_code[rn_pc].text \in texts

Goto(p) == rn_pc' = SkipEmpty(p)

\* return, or the end of the body: back to the caller, or the end of run.
Return ==
    /\ rn_for' = NoFor
    /\ rn_frames' = Tail(rn_frames)
    /\ IF Len(rn_frames) = 1
          THEN rn_status' = "done" /\ UNCHANGED rn_pc
          ELSE rn_status' = rn_status /\ rn_pc' = Head(rn_frames).ret

(***************************************************************************)
(* The behaviours the activation is run for                                *)
(***************************************************************************)
RunActions ==
    { [name |-> "divide", kind |-> "modify_self",
       send_message |-> [type |-> "", performative |-> "", float_params |-> ""],
       main_block |-> << [op |-> "Divide", arg1 |-> Arg("x", {"AgentParam", "Float"}),
                                           arg2 |-> Arg("y", {"AgentParam", "Float"})],
                         [op |-> "Add", arg1 |-> Arg("x", {"AgentParam", "Float"}),
                                        arg2 |-> Arg("1", {"Float"})] >>],
      [name |-> "tell", kind |-> "send_msg",
       send_message |-> [type |-> "m", performative |-> "p", float_params |-> ""],
       main_block |-> << [op |-> "Send", arg1 |-> Arg("peer", {"AgentParam", "Connection"}),
                                         arg2 |-> Arg("", {})] >>],
      [name |-> "tell_all", kind |-> "send_msg",
       send_message |-> [type |-> "m", performative |-> "q", float_params |-> ""],
       main_block |-> << [op |-> "Send", arg1 |-> Arg("conns", {"AgentParam", "ConnectionList"}),
                                         arg2 |-> Arg("", {})],
                         [op |-> "Add", arg1 |-> Arg("z", {"AgentParam", "Float"}),
                                        arg2 |-> Arg("2", {"Float"})] >>],
      [name |-> "pick", kind |-> "modify_self",
       send_message |-> [type |-> "", performative |-> "", float_params |-> ""],
       main_block |-> << [op |-> "Set", arg1 |-> Arg("m", {"AgentParam", "Message"}),
                                        arg2 |-> Arg("msgs", {"AgentParam", "MessageList"})],
                         [op |-> "Add", arg1 |-> Arg("w", {"AgentParam", "Float"}),
                                        arg2 |-> Arg("1", {"Float"})] >>] }

\* behaviour.actions is a dict keyed by the action name: the names differ.
RunActionLists ==
    {as \in UNION {[1..n -> RunActions] : n \in 0..3} : Injective(as)}

RunBehaviours ==
    { [name |-> "b", kind |-> k, delay |-> "0", period |-> "1",
       received_message |-> [type |-> "m", performative |-> "p"], actions |-> as] :
         k \in {"cyclic", "message_received"}, as \in RunActionLists }

\* A message object: id is its identity, body its body dict.
MessageObject(id, t, p, n) == [id |-> id, body |-> [type |-> t, performative |-> p, n |-> n]]

\* The message lists the agent may hold when the behaviour has the action
\* pick, beside the message m of type t and performative p.
MessageLists ==
    { <<>>,
      << MessageObject(2, "t", "q", 1), MessageObject(3, "u", "p", 2) >>,
      << MessageObject(2, "u", "p", 1), MessageObject(3, "t", "p", 2) >>,
      << MessageObject(2, "t", "p", 1), MessageObject(3, "t", "q", 2),
         MessageObject(4, "t", "p", 3) >> }

RunInit ==
    /\ rn_behaviour \in RunBehaviours
    /\ rn_emitter = "PythonSpadeCode"
    /\ rn_other = 0
    /\ rn_code = Render(AddAgentBehaviour(rn_behaviour, BehaviourType(rn_behaviour)), 0, <<>>)
    /\ rn_status = "idle"
    /\ rn_pc = 0
    /\ rn_frames = <<>>
    /\ \E x \in {0, 6}, y \in {0, 2, 3}, conns \in {<<>>, <<"j1">>, <<"j1", "j2">>},
          c \in {0, 4},
          msgs \in IF \E k \in 1..Len(rn_behaviour.actions) : rn_behaviour.actions[k].name = "pick"
                      THEN MessageLists ELSE {<<>>} :
           rn_agent = ("self.agent.x" :> x) @@ ("self.agent.y" :> y) @@ ("self.agent.z" :> 0)
                      @@ ("self.agent.w" :> 0)
                      @@ ("self.agent.m" :> MessageObject(1, "t", "p", 0))
                      @@ ("self.agent.msgs" :> msgs)
                      @@ ("self.agent.peer" :> "j3") @@ ("self.agent.conns" :> conns)
                      @@ ("self.agent.msgRCount" :> c) @@ ("self.agent.msgSCount" :> c)
    /\ rn_start = rn_agent
    /\ rn_rcv = [kind |-> "unset"]
    /\ rn_send = [kind |-> "unset"]
    /\ rn_receiver = ""
    /\ rn_for = NoFor
    /\ rn_sent = <<>>
    /\ rn_calls = <<>>
    /\ rn_receives = 0

RunParked ==
    /\ rn_behaviour = [kind |-> "none"]
    /\ rn_emitter = ""
    /\ rn_other = 0
    /\ rn_code = <<>>
    /\ rn_status = "parked"
    /\ rn_pc = 0
    /\ rn_frames = <<>>
    /\ rn_agent = <<>>
    /\ rn_start = <<>>
    /\ rn_rcv = [kind |-> "unset"]
    /\ rn_send = [kind |-> "unset"]
    /\ rn_receiver = ""
    /\ rn_for = NoFor
    /\ rn_sent = <<>>
    /\ rn_calls = <<>>
    /\ rn_receives = 0

\* spade activates the behaviour: run is called.
StartRun ==
    /\ rn_status = "idle"
    /\ rn_status' = "running"
    /\ rn_frames' = << [ret |-> 0, base |-> rn_code[DefLineOf({RunText}, "")].indent] >>
    /\ Goto(DefLineOf({RunText}, "") + 1)
    /\ UNCHANGED <<rn_behaviour, rn_emitter, rn_other, rn_code, rn_start, rn_agent, rn_rcv, rn_send, rn_receiver, rn_for,
                   rn_sent, rn_calls, rn_receives>>
    /\ UNCHANGED notRunVars

\* The message another agent sent with the (type, performative) of the
\* template the behaviour is registered with.
IncomingMessage ==
    [ kind |-> "Message",
      to |-> "me",
      metadata |-> rn_behaviour.received_message,
      body |-> [json |-> [type |-> rn_behaviour.received_message.type,
                          performative |-> rn_behaviour.received_message.performative,
                          sender |-> "j9"]] ]

ReceiveText == "rcv = await self.receive(timeout=100000)"

\* rcv = await self.receive(timeout=100000), the call: self.receive is
\* called and run is suspended inside the line; control is with the event
\* loop.
ExecReceive ==
    /\ AtLine({ReceiveText})
    /\ rn_receives' = rn_receives + 1
    /\ rn_status' = "suspended"
    /\ UNCHANGED <<rn_behaviour, rn_emitter, rn_other, rn_code, rn_start, rn_pc, rn_frames, rn_agent,
                   rn_rcv, rn_send, rn_receiver, rn_for, rn_sent, rn_calls>>
    /\ UNCHANGED notRunVars

\* rcv = await self.receive(timeout=100000), the result: run resumes with a
\* message that matches the template of the behaviour, or with None when
\* the timeout has expired, and rcv is bound to it.
ResumeReceive ==
    /\ rn_status = "suspended"
    /\ rn_code[rn_pc].text = ReceiveText
    /\ \E m \in { [kind |-> "None"], IncomingMessage } :
           rn_rcv' = m
    /\ rn_status' = "running"
    /\ Goto(rn_pc + 1)
    /\ UNCHANGED <<rn_behaviour, rn_emitter, rn_other, rn_code, rn_start, rn_frames, rn_agent, rn_send,
                   rn_receiver, rn_for, rn_sent, rn_calls, rn_receives>>
    /\ UNCHANGED notRunVars

\* setup adds every behaviour of the agent to it and they share the event
\* loop: while run is suspended in an await another behaviour of the agent
\* runs.  The other behaviour has the one action [Add x y]; it runs at most
\* once during the activation.
OtherBehaviourRuns ==
    /\ rn_status = "suspended"
    /\ rn_other = 0
    /\ rn_other' = 1
    /\ rn_agent' = [rn_agent EXCEPT !["self.agent.x"] = @ + rn_agent["self.agent.y"]]
    /\ UNCHANGED <<rn_behaviour, rn_emitter, rn_code, rn_start, rn_status, rn_pc, rn_frames, rn_rcv,
                   rn_send, rn_receiver, rn_for, rn_sent, rn_calls, rn_receives>>
    /\ UNCHANGED notRunVars

\* if rcv:
ExecIfRcv ==
    /\ AtLine({"if rcv:"})
    /\ IF rn_rcv.kind # "None"
          THEN Goto(rn_pc + 1)
          ELSE Goto(BlockEnd(rn_pc + 1, rn_code[rn_pc].indent))
    /\ UNCHANGED <<rn_behaviour, rn_emitter, rn_other, rn_code, rn_start, rn_status, rn_frames, rn_agent, rn_rcv, rn_send,
                   rn_receiver, rn_for, rn_sent, rn_calls, rn_receives>>
    /\ UNCHANGED notRunVars

\* rcv = self.agent.get_json_from_spade_message(rcv)
ExecDecode ==
    /\ AtLine({"rcv = self.agent.get_json_from_spade_message(rcv)"})
    /\ IF rn_rcv.kind = "Message"
          THEN rn_rcv' = GetJsonFromSpadeMessage(rn_rcv) /\ Goto(rn_pc + 1)
                  /\ UNCHANGED rn_status
          ELSE rn_status' = "error" /\ UNCHANGED <<rn_rcv, rn_pc>>
    /\ UNCHANGED <<rn_behaviour, rn_emitter, rn_other, rn_code, rn_start, rn_frames, rn_agent, rn_send,
                   rn_receiver, rn_for, rn_sent, rn_calls, rn_receives>>
    /\ UNCHANGED notRunVars

\* self.agent.msgRCount += 1 and self.agent.msgSCount += 1
ExecCount ==
    /\ AtLine({"self.agent.msgRCount += 1", "self.agent.msgSCount += 1"})
    /\ LET attr == IF rn_code[rn_pc].text = "self.agent.msgRCount += 1"
                      THEN "self.agent.msgRCount" ELSE "self.agent.msgSCount"
       IN  rn_agent' = [rn_agent EXCEPT ![attr] = @ + 1]
    /\ Goto(rn_pc + 1)
    /\ UNCHANGED <<rn_behaviour, rn_emitter, rn_other, rn_code, rn_start, rn_status, rn_frames, rn_rcv, rn_send,
                   rn_receiver, rn_for, rn_sent, rn_calls, rn_receives>>
    /\ UNCHANGED notRunVars

ExecPass ==
    /\ AtLine(PassTexts)
    /\ Goto(rn_pc + 1)
    /\ UNCHANGED <<rn_behaviour, rn_emitter, rn_other, rn_code, rn_start, rn_status, rn_frames, rn_agent, rn_rcv, rn_send,
                   rn_receiver, rn_for, rn_sent, rn_calls, rn_receives>>
    /\ UNCHANGED notRunVars

\* self.<action>(rcv), await self.<action>(rcv), self.<action>(), ...
ExecCall ==
    /\ AtLine(CallTexts)
    /\ LET name == rn_code[rn_pc].args[1]
           def == DefLineOf(DefTexts, name)
       IN  /\ rn_frames' = << [ret |-> SkipEmpty(rn_pc + 1), base |-> rn_code[def].indent] >>
                           \o rn_frames
           /\ rn_calls' = Append(rn_calls, [name |-> name, rcv |-> rn_rcv])
           /\ Goto(def + 1)
    /\ UNCHANGED <<rn_behaviour, rn_emitter, rn_other, rn_code, rn_start, rn_status, rn_agent, rn_rcv, rn_send,
                   rn_receiver, rn_for, rn_sent, rn_receives>>
    /\ UNCHANGED notRunVars

\* send = { "type": ..., "performative": ..., }
ExecSendInit ==
    /\ AtLine({"send = { \"type\": \"{message.type}\", \"performative\": \"{message.performative}\", {float_params}}"})
    /\ rn_send' = [kind |-> "dict", type |-> rn_code[rn_pc].args[1],
                   performative |-> rn_code[rn_pc].args[2]]
    /\ Goto(rn_pc + 1)
    /\ UNCHANGED <<rn_behaviour, rn_emitter, rn_other, rn_code, rn_start, rn_status, rn_frames, rn_agent, rn_rcv,
                   rn_receiver, rn_for, rn_sent, rn_calls, rn_receives>>
    /\ UNCHANGED notRunVars

\* <arg1> += <arg2>
ExecAdd ==
    /\ AtLine({"{arg1} += {arg2}"})
    /\ rn_agent' = [rn_agent EXCEPT ![rn_code[rn_pc].args[1]] = @ + Eval(rn_code[rn_pc].args[2])]
    /\ Goto(rn_pc + 1)
    /\ UNCHANGED <<rn_behaviour, rn_emitter, rn_other, rn_code, rn_start, rn_status, rn_frames, rn_rcv, rn_send,
                   rn_receiver, rn_for, rn_sent, rn_calls, rn_receives>>
    /\ UNCHANGED notRunVars

\* if <arg2> == 0: return
ExecDivideGuard ==
    /\ AtLine({"if {arg2} == 0: return"})
    /\ IF Eval(rn_code[rn_pc].args[1]) = 0
          THEN Return
          ELSE Goto(rn_pc + 1) /\ UNCHANGED <<rn_status, rn_frames, rn_for>>
    /\ UNCHANGED <<rn_behaviour, rn_emitter, rn_other, rn_code, rn_start, rn_agent, rn_rcv, rn_send,
                   rn_receiver, rn_sent, rn_calls, rn_receives>>
    /\ UNCHANGED notRunVars

\* <arg1> /= <arg2>: ZeroDivisionError for a zero divisor
ExecDivide ==
    /\ AtLine({"{arg1} /= {arg2}"})
    /\ IF Eval(rn_code[rn_pc].args[2]) = 0
          THEN rn_status' = "error" /\ UNCHANGED <<rn_agent, rn_pc>>
          ELSE /\ rn_agent' = [rn_agent EXCEPT ![rn_code[rn_pc].args[1]] =
                                   Quotient(@, Eval(rn_code[rn_pc].args[2]))]
               /\ Goto(rn_pc + 1)
               /\ UNCHANGED rn_status
    /\ UNCHANGED <<rn_behaviour, rn_emitter, rn_other, rn_code, rn_start, rn_frames, rn_rcv, rn_send,
                   rn_receiver, rn_for, rn_sent, rn_calls, rn_receives>>
    /\ UNCHANGED notRunVars

SendTexts ==
    { "await self.send(self.agent.get_spade_message({receiver}, send))",
      "await self.send(self.agent.get_spade_message(receiver, send))" }

\* await self.send(self.agent.get_spade_message(<receiver>, send)), the
\* call: get_spade_message writes the sender into send and builds the
\* message, self.send is called with it and run is suspended inside the
\* line.
ExecSend ==
    /\ AtLine(SendTexts)
    /\ LET to == IF rn_code[rn_pc].args = <<>> THEN rn_receiver
                 ELSE Eval(rn_code[rn_pc].args[1])
       IN  rn_sent' = Append(rn_sent, GetSpadeMessage(to, rn_send))
    /\ rn_send' = BodyWithSender(rn_send)
    /\ rn_status' = "suspended"
    /\ UNCHANGED <<rn_behaviour, rn_emitter, rn_other, rn_code, rn_start, rn_pc, rn_frames, rn_agent,
                   rn_rcv, rn_receiver, rn_for, rn_calls, rn_receives>>
    /\ UNCHANGED notRunVars

\* await self.send(...), the return: run resumes at the next line.
ResumeSend ==
    /\ rn_status = "suspended"
    /\ rn_code[rn_pc].text \in SendTexts
    /\ rn_status' = "running"
    /\ Goto(rn_pc + 1)
    /\ UNCHANGED <<rn_behaviour, rn_emitter, rn_other, rn_code, rn_start, rn_frames, rn_agent, rn_rcv,
                   rn_send, rn_receiver, rn_for, rn_sent, rn_calls, rn_receives>>
    /\ UNCHANGED notRunVars

\* for receiver in <receivers>: the loop is entered
ExecFor ==
    /\ AtLine({"for receiver in {receivers}:"})
    /\ LET l == Eval(rn_code[rn_pc].args[1])
       IN  IF l = <<>>
              THEN /\ Goto(BlockEnd(rn_pc + 1, rn_code[rn_pc].indent))
                   /\ UNCHANGED <<rn_receiver, rn_for>>
              ELSE /\ rn_receiver' = l[1]
                   /\ rn_for' = [line |-> rn_pc, idx |-> 1]
                   /\ Goto(rn_pc + 1)
    /\ UNCHANGED <<rn_behaviour, rn_emitter, rn_other, rn_code, rn_start, rn_status, rn_frames, rn_agent, rn_rcv, rn_send,
                   rn_sent, rn_calls, rn_receives>>
    /\ UNCHANGED notRunVars

\* the body of the for loop was run: the next element, or the loop is left
ForNext ==
    /\ rn_status = "running"
    /\ ForEnded
    /\ LET l == Eval(rn_code[rn_for.line].args[1])
       IN  IF rn_for.idx < Len(l)
              THEN /\ rn_receiver' = l[rn_for.idx + 1]
                   /\ rn_for' = [rn_for EXCEPT !.idx = @ + 1]
                   /\ Goto(rn_for.line + 1)
              ELSE /\ rn_for' = NoFor
                   /\ UNCHANGED <<rn_receiver, rn_pc>>
    /\ UNCHANGED <<rn_behaviour, rn_emitter, rn_other, rn_code, rn_start, rn_status, rn_frames, rn_agent, rn_rcv, rn_send,
                   rn_sent, rn_calls, rn_receives>>
    /\ UNCHANGED notRunVars

\* The positions of the elements of list the filter of the emitted line
\* keeps: those whose body has the type and the performative of msg.
Filtered(msg, list) ==
    {i \in 1..Len(list) : /\ list[i].body["type"] = msg.body["type"]
                           /\ list[i].body["performative"] = msg.body["performative"]}

\* copy.deepcopy(obj) of a message: a new object with an equal body.
Deepcopy(obj, agent) ==
    LET ids == {agent["self.agent.m"].id}
                  \cup {agent["self.agent.msgs"][i].id : i \in 1..Len(agent["self.agent.msgs"])}
    IN  [obj EXCEPT !.id = 1 + (CHOOSE id \in ids : \A other \in ids : other <= id)]

IfFilterText == "if len(list(filter(lambda msg: msg.body[\"type\"] == {msg}.body[\"type\"] and msg.body[\"performative\"] == {msg}.body[\"performative\"], {msg_list}))):"

ChoiceText == "{msg} = copy.deepcopy(random.choice(list(filter(lambda msg: msg.body[\"type\"] == {msg}.body[\"type\"] and msg.body[\"performative\"] == {msg}.body[\"performative\"], {msg_list}))))"

\* if len(list(filter(..., <msg_list>))): the block is entered if the filter
\* keeps an element, else the else block that follows it, if there is one.
ExecIfFilter ==
    /\ AtLine({IfFilterText})
    /\ LET msg == Eval(rn_code[rn_pc].args[1])
           list == Eval(rn_code[rn_pc].args[3])
           end == BlockEnd(rn_pc + 1, rn_code[rn_pc].indent)
       IN  IF Filtered(msg, list) # {}
              THEN Goto(rn_pc + 1)
              ELSE IF end <= Len(rn_code) /\ rn_code[end].text = "else:"
                                         /\ rn_code[end].indent = rn_code[rn_pc].indent
                      THEN Goto(end + 1)
                      ELSE Goto(end)
    /\ UNCHANGED <<rn_behaviour, rn_emitter, rn_other, rn_code, rn_start, rn_status, rn_frames, rn_agent, rn_rcv, rn_send,
                   rn_receiver, rn_for, rn_sent, rn_calls, rn_receives>>
    /\ UNCHANGED notRunVars

\* <msg> = copy.deepcopy(random.choice(list(filter(..., <msg_list>)))):
\* IndexError if the filter keeps nothing.
ExecChoice ==
    /\ AtLine({ChoiceText})
    /\ LET msg == Eval(rn_code[rn_pc].args[1])
           list == Eval(rn_code[rn_pc].args[4])
       IN  IF Filtered(msg, list) = {}
              THEN rn_status' = "error" /\ UNCHANGED <<rn_agent, rn_pc>>
              ELSE /\ \E i \in Filtered(msg, list) :
                         rn_agent' = [rn_agent EXCEPT ![rn_code[rn_pc].args[1]] =
                                          Deepcopy(list[i], rn_agent)]
                   /\ Goto(rn_pc + 1)
                   /\ UNCHANGED rn_status
    /\ UNCHANGED <<rn_behaviour, rn_emitter, rn_other, rn_code, rn_start, rn_frames, rn_rcv, rn_send,
                   rn_receiver, rn_for, rn_sent, rn_calls, rn_receives>>
    /\ UNCHANGED notRunVars

\* else: reached from the end of the block of its if, whose condition held
ExecElse ==
    /\ AtLine({"else:"})
    /\ Goto(BlockEnd(rn_pc + 1, rn_code[rn_pc].indent))
    /\ UNCHANGED <<rn_behaviour, rn_emitter, rn_other, rn_code, rn_start, rn_status, rn_frames, rn_agent, rn_rcv, rn_send,
                   rn_receiver, rn_for, rn_sent, rn_calls, rn_receives>>
    /\ UNCHANGED notRunVars

\* return
ExecReturnStatement ==
    /\ AtLine({"return"})
    /\ Return
    /\ UNCHANGED <<rn_behaviour, rn_emitter, rn_other, rn_code, rn_start, rn_agent, rn_rcv, rn_send,
                   rn_receiver, rn_sent, rn_calls, rn_receives>>
    /\ UNCHANGED notRunVars

\* the end of a function body
ExecReturn ==
    /\ rn_status = "running"
    /\ ~ForEnded
    /\ FunctionEnded
    /\ Return
    /\ UNCHANGED <<rn_behaviour, rn_emitter, rn_other, rn_code, rn_start, rn_agent, rn_rcv, rn_send,
                   rn_receiver, rn_sent, rn_calls, rn_receives>>
    /\ UNCHANGED notRunVars

RunNext ==
    \/ StartRun
    \/ ExecReceive
    \/ ResumeReceive
    \/ OtherBehaviourRuns
    \/ ExecIfRcv
    \/ ExecDecode
    \/ ExecCount
    \/ ExecPass
    \/ ExecCall
    \/ ExecSendInit
    \/ ExecAdd
    \/ ExecDivideGuard
    \/ ExecDivide
    \/ ExecSend
    \/ ResumeSend
    \/ ExecFor
    \/ ForNext
    \/ ExecIfFilter
    \/ ExecChoice
    \/ ExecElse
    \/ ExecReturnStatement
    \/ ExecReturn

(***************************************************************************)
(* Activations of a behaviour class emitted by either emitter, for actions *)
(* whose statements both emitters translate.                               *)
(***************************************************************************)
\* The actions: a division followed by an addition, the addition of a
\* literal and of an agent parameter to a list, and a Set, Multiply and
\* Subtract on z.
AgreeActions ==
    { [name |-> "divide", kind |-> "modify_self",
       send_message |-> [type |-> "", performative |-> "", float_params |-> ""],
       main_block |-> << [op |-> "Divide", arg1 |-> Arg("x", {"AgentParam", "Float"}),
                                           arg2 |-> Arg("y", {"AgentParam", "Float"})],
                         [op |-> "Add", arg1 |-> Arg("x", {"AgentParam", "Float"}),
                                        arg2 |-> Arg("1", {"Float"})] >>],
      [name |-> "collect", kind |-> "modify_self",
       send_message |-> [type |-> "", performative |-> "", float_params |-> ""],
       main_block |-> << [op |-> "AddElement", arg1 |-> Arg("l", {"AgentParam", "List"}),
                                               arg2 |-> Arg("2", {"Float"})] >>],
      [name |-> "gather", kind |-> "modify_self",
       send_message |-> [type |-> "", performative |-> "", float_params |-> ""],
       main_block |-> << [op |-> "AddElement", arg1 |-> Arg("l", {"AgentParam", "List"}),
                                               arg2 |-> Arg("y", {"AgentParam", "Float"})] >>],
      [name |-> "scale", kind |-> "modify_self",
       send_message |-> [type |-> "", performative |-> "", float_params |-> ""],
       main_block |-> << [op |-> "Set", arg1 |-> Arg("z", {"AgentParam", "Float"}),
                                        arg2 |-> Arg("x", {"AgentParam", "Float"})],
                         [op |-> "Multiply", arg1 |-> Arg("z", {"AgentParam", "Float"}),
                                             arg2 |-> Arg("2", {"Float"})],
                         [op |-> "Subtract", arg1 |-> Arg("z", {"AgentParam", "Float"}),
                                             arg2 |-> Arg("1", {"Float"})] >>] }

AgreeBehaviours ==
    { [name |-> "b", kind |-> "cyclic", delay |-> "0", period |-> "1",
       received_message |-> [type |-> "", performative |-> ""], actions |-> as] :
         as \in {as \in UNION {[1..n -> AgreeActions] : n \in 0..2} : Injective(as)} }

\* The class either emitter emits for the behaviour.
EmittedBy(emitter, behaviour) ==
    IF emitter = "PythonSpadeCode"
        THEN Render(AddAgentBehaviour(behaviour, BehaviourType(behaviour)), 0, <<>>)
        ELSE Render(SpadeAddAgentBehaviour(behaviour, BehaviourType(behaviour)), 0, <<>>)

AgreeInit ==
    /\ rn_behaviour \in AgreeBehaviours
    /\ rn_emitter \in {"PythonSpadeCode", "SpadeCode"}
    /\ rn_other = 0
    /\ rn_code = EmittedBy(rn_emitter, rn_behaviour)
    /\ rn_status = "idle"
    /\ rn_pc = 0
    /\ rn_frames = <<>>
    /\ \E x \in {0, 6}, y \in {0, 2, 3}, l \in {<<>>, <<2>>, <<3, 1>>} :
           rn_agent = ("self.agent.x" :> x) @@ ("self.agent.y" :> y) @@ ("self.agent.z" :> 0)
                      @@ ("self.agent.l" :> l)
    /\ rn_start = rn_agent
    /\ rn_rcv = [kind |-> "unset"]
    /\ rn_send = [kind |-> "unset"]
    /\ rn_receiver = ""
    /\ rn_for = NoFor
    /\ rn_sent = <<>>
    /\ rn_calls = <<>>
    /\ rn_receives = 0


\* <arg1> -= <arg2>
ExecSubtract ==
    /\ AtLine({"{arg1} -= {arg2}"})
    /\ rn_agent' = [rn_agent EXCEPT ![rn_code[rn_pc].args[1]] = @ - Eval(rn_code[rn_pc].args[2])]
    /\ Goto(rn_pc + 1)
    /\ UNCHANGED <<rn_behaviour, rn_emitter, rn_other, rn_code, rn_start, rn_status, rn_frames, rn_rcv, rn_send,
                   rn_receiver, rn_for, rn_sent, rn_calls, rn_receives>>
    /\ UNCHANGED notRunVars

\* <arg1> *= <arg2>
ExecMultiply ==
    /\ AtLine({"{arg1} *= {arg2}"})
    /\ rn_agent' = [rn_agent EXCEPT ![rn_code[rn_pc].args[1]] = @ * Eval(rn_code[rn_pc].args[2])]
    /\ Goto(rn_pc + 1)
    /\ UNCHANGED <<rn_behaviour, rn_emitter, rn_other, rn_code, rn_start, rn_status, rn_frames, rn_rcv, rn_send,
                   rn_receiver, rn_for, rn_sent, rn_calls, rn_receives>>
    /\ UNCHANGED notRunVars

\* <arg1> = <arg2>
ExecSet ==
    /\ AtLine({"{arg1} = {arg2}"})
    /\ rn_agent' = [rn_agent EXCEPT ![rn_code[rn_pc].args[1]] = Eval(rn_code[rn_pc].args[2])]
    /\ Goto(rn_pc + 1)
    /\ UNCHANGED <<rn_behaviour, rn_emitter, rn_other, rn_code, rn_start, rn_status, rn_frames, rn_rcv, rn_send,
                   rn_receiver, rn_for, rn_sent, rn_calls, rn_receives>>
    /\ UNCHANGED notRunVars

\* if <arg2> not in <arg1>: <arg1>.append(<arg2>)
ExecAddElement ==
    /\ AtLine({"if {arg2} not in {arg1}: {arg1}.append({arg2})"})
    /\ LET list == rn_code[rn_pc].args[2]
           elem == Eval(rn_code[rn_pc].args[1])
       IN  rn_agent' = [rn_agent EXCEPT ![list] =
                           IF \E i \in 1..Len(@) : @[i] = elem THEN @ ELSE Append(@, elem)]
    /\ Goto(rn_pc + 1)
    /\ UNCHANGED <<rn_behaviour, rn_emitter, rn_other, rn_code, rn_start, rn_status, rn_frames, rn_rcv, rn_send,
                   rn_receiver, rn_for, rn_sent, rn_calls, rn_receives>>
    /\ UNCHANGED notRunVars

\* self.agent.<arg1.expr>.append(<arg2.expr>): NameError if arg2.expr is
\* not a name the body can read
ExecAppend ==
    /\ AtLine({"self.agent.{statement.arg1.expr}.append({statement.arg2.expr})"})
    /\ IF rn_code[rn_pc].args[2] \in DOMAIN NumberLiterals \cup DOMAIN rn_agent
          THEN /\ rn_agent' = [rn_agent EXCEPT !["self.agent." \o rn_code[rn_pc].args[1]] =
                                   Append(@, Eval(rn_code[rn_pc].args[2]))]
               /\ Goto(rn_pc + 1)
               /\ UNCHANGED rn_status
          ELSE rn_status' = "error" /\ UNCHANGED <<rn_agent, rn_pc>>
    /\ UNCHANGED <<rn_behaviour, rn_emitter, rn_other, rn_code, rn_start, rn_frames, rn_rcv, rn_send,
                   rn_receiver, rn_for, rn_sent, rn_calls, rn_receives>>
    /\ UNCHANGED notRunVars

AgreeNext ==
    \/ StartRun
    \/ ExecPass
    \/ ExecCall
    \/ ExecAdd
    \/ ExecSubtract
    \/ ExecMultiply
    \/ ExecSet
    \/ ExecDivideGuard
    \/ ExecDivide
    \/ ExecAddElement
    \/ ExecAppend
    \/ ExecReturn

(***************************************************************************)
(* The message templates of the State.  State.messages is a dict keyed by  *)
(* (type, performative): it is held as the sequence of its items in        *)
(* insertion order.  A Message is an object on the heap that refers to its *)
(* float_params dict, another object, so that a copy that shares a part of *)
(* the message differs from a deep copy.                                   *)
(***************************************************************************)
MsgTypes == {"t1", "t2"}

MsgPerformatives == {"p1", "p2"}

FloatParams == {{}, {"x"}}

\* d[k] = v of a Python dict: the value of an existing key is replaced where
\* the key stands, a new key goes to the end.
DictPut_Appends(d, k, v) == Append(d, [key |-> k, value |-> v])

DictPut(d, k, v) ==
    IF \E i \in 1..Len(d) : d[i].key = k
        THEN [i \in 1..Len(d) |-> IF d[i].key = k THEN [key |-> k, value |-> v] ELSE d[i]]
        ELSE Append(d, [key |-> k, value |-> v])

\* k in d
DictHas(d, k) == \E i \in 1..Len(d) : d[i].key = k

\* d[k], k in d
DictGet(d, k) == d[CHOOSE i \in 1..Len(d) : d[i].key = k].value

\* State.message_exists
MessageExists(msg_type, msg_performative) ==
    DictHas(messages, <<msg_type, msg_performative>>)

\* State.last_message: self.messages[list(self.messages.keys())[-1]]
LastMessage == messages[Len(messages)].value

\* The Message objects on the heap
MessageIds == {id \in 1..Len(heap) : heap[id].kind = "Message"}

\* deepcopy of the float_params dict a message refers to: a new object.
DeepcopyParams_Shared(params, fresh) == params

DeepcopyParams(params, fresh) == fresh

\* The fields of a Message, by value.
ContentOf(id) ==
    [ type |-> heap[id].type, performative |-> heap[id].performative,
      float_params |-> heap[heap[id].float_params].keys ]

StateInit ==
    /\ messages = <<>>
    /\ heap = <<>>
    /\ added = <<>>
    /\ instances = <<>>

StateParked ==
    /\ messages = <<>>
    /\ heap = <<>>
    /\ added = <<>>
    /\ instances = <<>>

\* State.add_message(message), message a Message the caller has built.
AddMessage ==
    /\ Cardinality(MessageIds) < MaxMessages
    /\ \E t \in MsgTypes, p \in MsgPerformatives, fp \in FloatParams :
           /\ heap' = heap \o << [kind |-> "dict", keys |-> fp],
                                 [kind |-> "Message", type |-> t, performative |-> p,
                                  float_params |-> Len(heap) + 1] >>
           /\ messages' = DictPut(messages, <<t, p>>, Len(heap) + 2)
           /\ added' = Append(added, [key |-> <<t, p>>, type |-> t, performative |-> p,
                                      float_params |-> fp, id |-> Len(heap) + 2])
    /\ UNCHANGED instances
    /\ UNCHANGED notStateVars

\* State.get_message_instance(msg_type, msg_performative), for a pair that
\* message_exists holds of: deepcopy(self.messages[(msg_type, msg_performative)])
GetMessageInstance ==
    /\ Cardinality(MessageIds) < MaxMessages
    /\ \E t \in MsgTypes, p \in MsgPerformatives :
           /\ MessageExists(t, p)
           /\ LET template == heap[DictGet(messages, <<t, p>>)]
                  params == DeepcopyParams(template.float_params, Len(heap) + 1)
              IN  heap' = heap \o << heap[template.float_params],
                                     [template EXCEPT !.float_params = params] >>
           /\ instances' = Append(instances, [id |-> Len(heap) + 2, key |-> <<t, p>>])
    /\ UNCHANGED <<messages, added>>
    /\ UNCHANGED notStateVars

\* A usage site binds a value in the instance it got: a float parameter is
\* added to its float_params, or its performative is set.
MutateInstance ==
    /\ \E i \in 1..Len(instances) :
           \/ heap' = [heap EXCEPT ![heap[instances[i].id].float_params].keys = @ \cup {"bound"}]
           \/ heap' = [heap EXCEPT ![instances[i].id].performative = "bound"]
    /\ UNCHANGED <<messages, added, instances>>
    /\ UNCHANGED notStateVars

StateNext ==
    \/ AddMessage
    \/ GetMessageInstance
    \/ MutateInstance

(***************************************************************************)
(* State.tokens_from_lines.  A line is the sequence of its characters, a   *)
(* token likewise.                                                         *)
(***************************************************************************)
Chars == {"a", "B", " ", ",", "#"}

RECURSIVE LinesOfLength(_)
LinesOfLength(n) ==
    IF n = 0 THEN {<<>>}
    ELSE {Append(l, c) : l \in LinesOfLength(n - 1), c \in Chars}

Lines == UNION {LinesOfLength(n) : n \in 0..MaxChars}

IsSpace(c) == c \in {" ", "\t", "\n", "\r"}

\* line.split("#")[0]: the text before the first "#", all of it if none
SplitHash(line) ==
    IF \E i \in 1..Len(line) : line[i] = "#"
        THEN SubSeq(line, 1, (CHOOSE i \in 1..Len(line) :
                                 /\ line[i] = "#"
                                 /\ \A j \in 1..(i-1) : line[j] # "#") - 1)
        ELSE line

\* uncommented.replace(",", " ")
ReplaceComma_Keeps(s) == s

ReplaceComma(s) == [i \in 1..Len(s) |-> IF s[i] = "," THEN " " ELSE s[i]]

\* str.split(): the runs of characters between runs of whitespace
RECURSIVE Split(_)
Split(s) ==
    IF s = <<>> THEN <<>>
    ELSE IF IsSpace(s[1]) THEN Split(Tail(s))
    ELSE LET ends == {i \in 1..Len(s) : IsSpace(s[i])}
             n == IF ends = {} THEN Len(s)
                  ELSE (CHOOSE i \in ends : \A j \in ends : i <= j) - 1
         IN  <<SubSeq(s, 1, n)>> \o Split(SubSeq(s, n + 1, Len(s)))

\* str.strip()
RECURSIVE Strip(_)
Strip(s) ==
    IF s = <<>> THEN s
    ELSE IF IsSpace(s[1]) THEN Strip(Tail(s))
    ELSE IF IsSpace(s[Len(s)]) THEN Strip(SubSeq(s, 1, Len(s) - 1))
    ELSE s

UpperChar(c) ==
    IF c = "a" THEN "A" ELSE IF c = "b" THEN "B" ELSE c

\* str.upper()
Upper(s) == [i \in 1..Len(s) |-> UpperChar(s[i])]

\* The list the loop body builds for a line; it is yielded if not empty.
TokensOf(line) ==
    LET uncommented == SplitHash(line)
        split == Split(ReplaceComma(uncommented))
        toks == [i \in 1..Len(split) |-> Strip(split[i])]
    IN  IF toks # <<>> THEN [toks EXCEPT ![1] = Upper(@)] ELSE toks

\* The programs: one line, or two of which one is at most a character long.
Programs ==
    {<<l>> : l \in Lines}
        \cup {<<l, p>> : l \in Lines, p \in LinesOfLength(0) \cup LinesOfLength(1)}
        \cup {<<p, l>> : l \in Lines, p \in LinesOfLength(0) \cup LinesOfLength(1)}

\* No PanicException has been raised.
NoPlace == [kind |-> "none"]

\* Preprocessor.get_original_line_number for the processed lines 1 and 2:
\* the original line number and the description of the directive the line
\* came from, "" if it came from none.
LineMaps ==
    { [k \in 1..2 |-> [line |-> k, data |-> ""]],
      <<[line |-> 1, data |-> "MAKRO m"], [line |-> 5, data |-> ""]>>,
      <<[line |-> 3, data |-> ""], [line |-> 1, data |-> "MAKRO m"]>> }

GetOriginalLineNumber(map, k) == map[k]

PanicPlace_NoDirective(lines, map, num) ==
    [kind |-> "line", line |-> GetOriginalLineNumber(map, num).line,
     text |-> Strip(lines[num])]

\* The place State.panic gives its PanicException: "Error in preprocessor
\* directive: {data}, declared at line {line}" or "Error in line {line}:
\* {text}".
PanicPlace(lines, map, num) ==
    LET err_line == GetOriginalLineNumber(map, num).line
        err_data == GetOriginalLineNumber(map, num).data
    IN  IF err_data # ""
        THEN [kind |-> "directive", data |-> err_data, line |-> err_line]
        ELSE [kind |-> "line", line |-> err_line, text |-> Strip(lines[num])]

TokInit ==
    /\ tk_lines \in Programs
    /\ tk_map \in LineMaps
    /\ tk_place = NoPlace
    /\ tk_num = 0
    /\ tk_line = <<>>
    /\ tk_tokens = <<>>
    /\ tk_yielded = FALSE

TokParked ==
    /\ tk_lines = <<>>
    /\ tk_map = <<>>
    /\ tk_place = NoPlace
    /\ tk_num = 0
    /\ tk_line = <<>>
    /\ tk_tokens = <<>>
    /\ tk_yielded = FALSE

\* One turn of the for loop on a line that has tokens: they are yielded.
YieldTokens ==
    /\ tk_place = NoPlace
    /\ tk_num < Len(tk_lines)
    /\ TokensOf(tk_lines[tk_num + 1]) # <<>>
    /\ tk_num' = tk_num + 1
    /\ tk_line' = tk_lines[tk_num + 1]
    /\ tk_tokens' = TokensOf(tk_lines[tk_num + 1])
    /\ tk_yielded' = TRUE
    /\ UNCHANGED <<tk_lines, tk_map, tk_place>>
    /\ UNCHANGED notTokVars

\* One turn of the for loop on a line that has none: nothing is yielded.
SkipLine ==
    /\ tk_place = NoPlace
    /\ tk_num < Len(tk_lines)
    /\ TokensOf(tk_lines[tk_num + 1]) = <<>>
    /\ tk_num' = tk_num + 1
    /\ tk_line' = tk_lines[tk_num + 1]
    /\ tk_tokens' = TokensOf(tk_lines[tk_num + 1])
    /\ tk_yielded' = FALSE
    /\ UNCHANGED <<tk_lines, tk_map, tk_place>>
    /\ UNCHANGED notTokVars

\* The handler the yielded tokens were dispatched to calls State.panic: the
\* PanicException leaves the loop of parse_lines.
PanicAtLine ==
    /\ tk_place = NoPlace
    /\ tk_yielded
    /\ tk_place' = PanicPlace(tk_lines, tk_map, tk_num)
    /\ UNCHANGED <<tk_lines, tk_map, tk_num, tk_line, tk_tokens, tk_yielded>>
    /\ UNCHANGED notTokVars

TokNext ==
    \/ YieldTokens
    \/ SkipLine
    \/ PanicAtLine

(***************************************************************************)
(* Specifications: one per subsystem, the other groups parked.             *)
(***************************************************************************)
InitParse == ParseInit /\ StatParked /\ MatParked /\ EmitParked /\ ListParked /\ RunParked /\ StateParked /\ TokParked /\ IrParked

SpecParse == InitParse /\ [][ParseNext]_vars

InitStat == StatInit /\ ParseParked /\ MatParked /\ EmitParked /\ ListParked /\ RunParked /\ StateParked /\ TokParked /\ IrParked

SpecStat == InitStat /\ [][StatNext]_vars

InitMatrix == MatInit /\ ParseParked /\ StatParked /\ EmitParked /\ ListParked /\ RunParked /\ StateParked /\ TokParked /\ IrParked

SpecMatrix == InitMatrix /\ [][MatNext]_vars

InitEmit == EmitInit /\ ParseParked /\ StatParked /\ MatParked /\ ListParked /\ RunParked /\ StateParked /\ TokParked /\ IrParked

SpecEmit == InitEmit /\ [][EmitNext]_vars

InitList == ListInit /\ ParseParked /\ StatParked /\ MatParked /\ EmitParked /\ RunParked /\ StateParked /\ TokParked /\ IrParked

SpecList == InitList /\ [][ListNext]_vars

InitRun == RunInit /\ ParseParked /\ StatParked /\ MatParked /\ EmitParked /\ ListParked /\ StateParked /\ TokParked /\ IrParked

SpecRun == InitRun /\ [][RunNext]_vars

InitState == StateInit /\ ParseParked /\ StatParked /\ MatParked /\ EmitParked /\ ListParked /\ RunParked /\ TokParked /\ IrParked

SpecState == InitState /\ [][StateNext]_vars

InitTokens == TokInit /\ ParseParked /\ StatParked /\ MatParked /\ EmitParked /\ ListParked /\ RunParked /\ StateParked /\ IrParked

SpecTokens == InitTokens /\ [][TokNext]_vars

\* --- activations of the class emitted by either emitter ---
InitAgree == AgreeInit /\ ParseParked /\ StatParked /\ MatParked /\ EmitParked /\ ListParked /\ StateParked /\ TokParked /\ IrParked

SpecAgree == InitAgree /\ [][AgreeNext]_vars

\* --- generation on a heap, twice from the same parsed data ---
InitRegen == IrInit /\ ParseParked /\ StatParked /\ MatParked /\ EmitParked /\ ListParked /\ RunParked /\ StateParked /\ TokParked

SpecRegen == InitRegen /\ [][IrNext]_vars

(***************************************************************************)
(* C1: when the input ends while an AGENT, a MESSAGE or a GRAPH context is *)
(* open, parsing fails with "Missing EAGENT", "Missing EMESSAGE" or        *)
(* "Missing EGRAPH" respectively and no ParsedData is returned; when every *)
(* opened context has been closed, get_parsed_data returns the ParsedData  *)
(* and raises no diagnostic.                                               *)
(***************************************************************************)
C1_EndState ==
    ended =>
        /\ in_agent => (outcome = "panic" /\ reason = "Missing EAGENT")
        /\ in_message => (outcome = "panic" /\ reason = "Missing EMESSAGE")
        /\ in_graph => (outcome = "panic" /\ reason = "Missing EGRAPH")
        /\ NoContextOpen => (outcome = "parsed" /\ reason = "")
        /\ reason = VerifyEndState(in_agent, in_message, in_graph)
        /\ VerifyEndState(FALSE, FALSE, TRUE) = "Missing EGRAPH"

\* Input ended inside a MESSAGE context after an AGENT context was opened and closed.
C1_Witness ==
    /\ ended
    /\ in_message
    /\ outcome = "panic"
    /\ line_num >= 3

(***************************************************************************)
(* C2: in the emitted statistical generate_graph_structure, for every      *)
(* instance and every drawn connection count (negative draws and draws     *)
(* larger than the population included) the count used is the draw clamped *)
(* into [0, population-1], population being the number of generated        *)
(* identifiers; the instance's peer list has exactly that many entries,    *)
(* never holds the instance's own identifier, holds no duplicates, and the *)
(* sampling step never asks for more peers than there are other instances  *)
(* (random.sample never raises).                                           *)
(***************************************************************************)
C2_ClampedDistinctPeers ==
    LET pop == Len(st_jids)
    IN  /\ st_pc # "error"
        /\ st_agents # <<>> =>
             /\ num_connections \in 0..(pop - 1)
             /\ st_drawn < 0 => num_connections = 0
             /\ st_drawn > pop - 1 => num_connections = pop - 1
             /\ st_drawn \in 0..(pop - 1) => num_connections = st_drawn
             /\ Len(st_agents[Len(st_agents)].connections) = num_connections
        /\ \A i \in 1..Len(st_agents) :
             LET r == st_agents[i]
             IN  /\ Len(r.connections) <= pop - 1
                 /\ r.jid \notin Range(r.connections)
                 /\ Range(r.connections) \subseteq Range(st_jids)
                 /\ Injective(r.connections)

\* A draw above the population was clamped to population-1 = 2 peers, after an
\* earlier instance whose draw was negative.
C2_Witness ==
    /\ st_pc = "loop"
    /\ Len(st_jids) = 3
    /\ Len(st_agents) >= 2
    /\ st_drawn > 2
    /\ Len(st_agents[Len(st_agents)].connections) = 2
    /\ st_agents[1].connections = <<>>
    /\ sgraph.agents[1].connections.kind = "normal"

(***************************************************************************)
(* C3: in the emitted statistical generate_graph_structure each agent      *)
(* type's instance count is its absolute count or percent / 100 * size     *)
(* rounded to the nearest integer (60% and 40% of 10 give 6 and 4); the    *)
(* result holds one record per instance, as many records as the per-type   *)
(* counts sum to (also when the percentages do not sum to 100), with       *)
(* pairwise distinct identifiers, and each type contributes exactly its    *)
(* own count of records, labelled with its own name, in declaration order  *)
(* of the types.                                                           *)
(***************************************************************************)
Abs(x) == IF x < 0 THEN 0 - x ELSE x

\* n is amount m's instance count for a graph of the given size
IsCountOf(n, m, size) ==
    IF m.kind = "const"
        THEN n = m.value
        ELSE /\ 2 * Abs(100 * n - m.value * size) <= 100
             /\ 2 * Abs(100 * n - m.value * size) = 100 => n % 2 = 0

RecordsOfType(name) == {k \in 1..Len(st_agents) : st_agents[k].type = name}

C3_InstanceCounts ==
    st_pc = "done" =>
        /\ \A t \in 1..Len(sgraph.agents) :
             IsCountOf(Cardinality(RecordsOfType(sgraph.agents[t].name)),
                       sgraph.agents[t].amount, sgraph.size)
        /\ \A k \in 1..Len(st_agents) :
             \E t \in 1..Len(sgraph.agents) : st_agents[k].type = sgraph.agents[t].name
        /\ Len(st_agents) = Len(st_jids)
        /\ \A i, j \in 1..Len(st_agents) :
             st_agents[i].jid = st_agents[j].jid => i = j
        /\ \A i, j \in 1..Len(st_agents) :
             \A t, u \in 1..Len(sgraph.agents) :
                (i < j /\ st_agents[i].type = sgraph.agents[t].name
                       /\ st_agents[j].type = sgraph.agents[u].name) => t <= u

\* {A: 60%, B: 40%} with size 10 returned 6 records of A followed by 4 of B.
C3_Witness ==
    /\ st_pc = "done"
    /\ sgraph.size = 10
    /\ Len(sgraph.agents) = 2
    /\ sgraph.agents[1].amount = [kind |-> "percent", value |-> 60]
    /\ sgraph.agents[2].amount = [kind |-> "percent", value |-> 40]
    /\ Cardinality(RecordsOfType("A")) = 6
    /\ Cardinality(RecordsOfType("B")) = 4
    /\ st_agents[6].type = "A"
    /\ st_agents[7].type = "B"

\* Percentages that do not sum to 100: 60% and 60% of 3 give 2 + 2 records.
C3_WitnessNot100 ==
    /\ st_pc = "done"
    /\ sgraph.size = 3
    /\ Len(sgraph.agents) = 2
    /\ sgraph.agents[1].amount = [kind |-> "percent", value |-> 60]
    /\ sgraph.agents[2].amount = [kind |-> "percent", value |-> 60]
    /\ Len(st_agents) = 4

(***************************************************************************)
(* Matrix graph: the type index and the shard of a record, read from its   *)
(* identifier index i + s * N.                                             *)
(***************************************************************************)
NTypes == Len(mgraph.agents)

DeclaredScale == IF mgraph.scale.defined THEN mgraph.scale.value ELSE 1

TypeOf(jid) == jid % NTypes

ShardOf(jid) == jid \div NTypes

\* The instances in shard s of the types marked 1 in the adjacency row of type i
LinkedInShard(i, s) ==
    {j + s * NTypes : j \in {t \in 0..(NTypes - 1) : mgraph.agents[i + 1].adj_row[t + 1] = 1}}

\* The instances of type i in the shards other than s
ReplicasElsewhere(i, s) ==
    {i + u * NTypes : u \in (0..(DeclaredScale - 1)) \ {s}}

(***************************************************************************)
(* C4 as stated: the peer list of shard s's instance of type i consists of *)
(* shard s's instances of exactly the types marked 1 in type i's adjacency *)
(* row, and no peer belongs to a different shard.                          *)
(***************************************************************************)
C4_OnlyOwnShard ==
    \A k \in 1..Len(mx_agents) :
        LET r == mx_agents[k]
        IN  /\ Range(r.connections) = LinkedInShard(TypeOf(r.jid), ShardOf(r.jid))
            /\ \A p \in Range(r.connections) : ShardOf(p) = ShardOf(r.jid)

(***************************************************************************)
(* C4 amended: the peer list of shard s's instance of type i consists of   *)
(* shard s's instances of exactly the types marked 1 in type i's adjacency *)
(* row, and of the instances of type i itself in every other shard; within *)
(* its own shard it follows the base adjacency pattern, and a peer in a    *)
(* different shard is always an instance of the same type.                 *)
(***************************************************************************)
C4_ShardPattern ==
    \A k \in 1..Len(mx_agents) :
        LET r == mx_agents[k]
            i == TypeOf(r.jid)
            s == ShardOf(r.jid)
        IN  /\ Range(r.connections) = LinkedInShard(i, s) \cup ReplicasElsewhere(i, s)
            /\ {p \in Range(r.connections) : ShardOf(p) = s} = LinkedInShard(i, s)
            /\ \A p \in Range(r.connections) : ShardOf(p) # s => TypeOf(p) = i
            /\ Len(r.connections) =
                 Cardinality(LinkedInShard(i, s)) + Cardinality(ReplicasElsewhere(i, s))

\* Rows [0,1] and [1,0] with scale 2: instance 0 of shard 1 (jid 2) is linked
\* to instance 1 of shard 1 (jid 3) and to its own replica in shard 0 (jid 0).
C4_Witness ==
    /\ mx_pc = "done"
    /\ NTypes = 2
    /\ mgraph.scale = [defined |-> TRUE, value |-> 2]
    /\ mgraph.agents[1].adj_row = <<0, 1>>
    /\ mgraph.agents[2].adj_row = <<1, 0>>
    /\ \E k \in 1..Len(mx_agents) :
          mx_agents[k].jid = 2 /\ mx_agents[k].connections = <<3, 0>>

(***************************************************************************)
(* C5: the emitted matrix generate_graph_structure returns exactly N * S   *)
(* records with pairwise distinct identifiers, one per (agent type, shard) *)
(* pair, S being the declared scale, or 1 when none is declared; with      *)
(* S = 1 there is one instance per type and its peer list is exactly the   *)
(* instances of the types marked 1 in its adjacency row.                   *)
(***************************************************************************)
C5_Population ==
    mx_pc = "done" =>
        /\ Len(mx_agents) = NTypes * DeclaredScale
        /\ \A a, b \in 1..Len(mx_agents) : mx_agents[a].jid = mx_agents[b].jid => a = b
        /\ {mx_agents[k].jid : k \in 1..Len(mx_agents)} =
              {i + s * NTypes : i \in 0..(NTypes - 1), s \in 0..(DeclaredScale - 1)}
        /\ DeclaredScale = 1 =>
              \A k \in 1..Len(mx_agents) :
                 LET r == mx_agents[k]
                 IN  /\ Range(r.connections) = LinkedInShard(r.jid, 0)
                     /\ Len(r.connections) = Cardinality(LinkedInShard(r.jid, 0))

\* No scale declared, two types linked to each other: two records.
C5_Witness ==
    /\ mx_pc = "done"
    /\ ~mgraph.scale.defined
    /\ NTypes = 2
    /\ Len(mx_agents) = 2
    /\ mx_agents[1].connections = <<1>>
    /\ mx_agents[2].connections = <<0>>

(***************************************************************************)
(* C6: every record returned by the emitted matrix                         *)
(* generate_graph_structure carries the name of its own agent type: the    *)
(* record with identifier index i + s * N has the name of the i-th         *)
(* declared agent type.                                                    *)
(***************************************************************************)
C6_OwnTypeName ==
    \A k \in 1..Len(mx_agents) :
        mx_agents[k].type = mgraph.agents[TypeOf(mx_agents[k].jid) + 1].name

(***************************************************************************)
(* Code generation                                                         *)
(***************************************************************************)
EmptyProgram == em_agents = <<>> /\ em_graph.kind = "none"

DefLine == [indent |-> 0, text |-> "def generate_graph_structure(domain):", args |-> <<>>]

ReturnEmptyLine == [indent |-> 1, text |-> "return []", args |-> <<>>]

\* C7: generating code from an empty program (no agents, no messages, no
\* graph) yields an empty agent section and a graph unit that defines
\* generate_graph_structure(domain) returning an empty structure.
C7_GraphUnitDefinesFunction ==
    (em_pc = "done" /\ EmptyProgram)
        => /\ agent_code_lines = <<>>
           /\ \E i \in 1..Len(code_lines) : code_lines[i] = DefLine
           /\ \E i \in 1..Len(code_lines) : code_lines[i] = ReturnEmptyLine

ZeroAgentTypes == em_graph.kind # "none" /\ em_graph.g.agents = <<>>

\* The lines of the graph unit after the imports and the two empty lines.
GraphFunctionLines == SubSeq(code_lines, Len(GraphOps(em_graph)) - Len(GenerateGraph(em_graph)) + 1,
                             Len(code_lines))

\* C8: for a declared graph, statistical or matrix, with zero agent types
\* the emitted generate_graph_structure is the def line followed by
\* "return []" one level in and nothing else (no population count, no
\* identifier list, no connection computation), and the indentation of the
\* emitter is back at the level it had before the function.
C8_ZeroAgentTypes ==
    (em_pc = "done" /\ ZeroAgentTypes)
        => /\ GraphFunctionLines = <<DefLine, ReturnEmptyLine>>
           /\ Len(code_lines) = Len(GraphImports) + 2 + 2
           /\ indent = 0

C8_Witness ==
    /\ em_pc = "done"
    /\ ZeroAgentTypes
    /\ em_graph.kind = "statistical"
    /\ code_lines[Len(code_lines)] = ReturnEmptyLine

(***************************************************************************)
(* List statements                                                         *)
(***************************************************************************)
SubsetRan == statement = "Subset" /\ rt_pc \in {"done", "taken", "returned", "mutated"}

\* The values held by the elements of a list object, in order.
ValuesOf(l) == [i \in 1..Len(list_objects[l]) |-> objects[list_objects[l][i]].value]

\* "each element of d is a copy of a distinct position of s"
CopiesOfDistinctPositions(d, s) ==
    \E p \in [1..Len(d) -> 1..Len(s)] :
        /\ Injective(p)
        /\ \A j \in 1..Len(d) : d[j] = s[p[j]]

SourceUnchanged ==
    /\ from_list = 1
    /\ list_objects[from_list] = [i \in 1..Len(elems_in) |-> i]
    /\ \A i \in 1..Len(elems_in) : objects[i] = elems_in[i]

\* C9: after SUBS dst, src, N: if round(N) <= 0, dst is the empty list;
\* otherwise dst has exactly min(round(N), len(src)) elements, each a copy
\* of a distinct position of src; src is unchanged; dst is another list
\* object than src and shares no mutable element with it.  A message taken
\* from dst by a later Set is an object of neither list, and src and dst
\* are unchanged after it has been mutated.
C9_Subset ==
    SubsetRan =>
        LET d == list_objects[to_list]
            s == list_objects[from_list]
        IN  /\ RoundNum <= 0 => d = <<>>
            /\ RoundNum > 0 =>
                   /\ Len(d) = Min(RoundNum, Len(s))
                   /\ CopiesOfDistinctPositions(ValuesOf(to_list), ValuesOf(from_list))
            /\ SourceUnchanged
            /\ to_list # from_list
            /\ \A j \in 1..Len(d) :
                   IsMutable(d[j]) => \A i \in 1..Len(s) : d[j] # s[i]
            /\ taken # 0 =>
                   /\ \A j \in 1..Len(d) : taken # d[j]
                   /\ \A i \in 1..Len(s) : taken # s[i]

\* Every element of a list of two or more messages was copied, one of the
\* copies was taken by a later Set and the message taken was mutated.
C9_Witness ==
    /\ statement = "Subset"
    /\ rt_pc = "mutated"
    /\ RoundNum > Len(elems_in)
    /\ Len(elems_in) >= 2
    /\ Len(list_objects[to_list]) = Len(elems_in)
    /\ objects[taken].value = 21
    /\ ValuesOf(to_list) = ValuesOf(from_list)

RemoveRan == statement = "RemoveNElements" /\ rt_pc = "done"

\* C10: after REMEN L, N: if round(N) <= 0, L is unchanged; if round(N) >=
\* len(L), L is empty; otherwise L has exactly len(L) - round(N) elements,
\* which are elements of distinct positions of the original L (nothing
\* added, nothing duplicated), in any order.
C10_RemoveNElements ==
    RemoveRan =>
        LET l == list_objects[arg1]
            n == Len(elems_in)
        IN  /\ RoundNum <= 0 => arg1 = 1 /\ l = [i \in 1..n |-> i]
            /\ RoundNum >= n /\ RoundNum > 0 => l = <<>>
            /\ (RoundNum > 0 /\ RoundNum < n) =>
                   /\ Len(l) = n - RoundNum
                   /\ CopiesOfDistinctPositions(l, [i \in 1..n |-> i])
            /\ \A i \in 1..n : objects[i] = elems_in[i]

C10_Witness ==
    /\ RemoveRan
    /\ RoundNum = 1
    /\ Len(elems_in) = 3
    /\ list_objects[arg1] = <<3, 1>>

(***************************************************************************)
(* One activation of a behaviour                                           *)
(***************************************************************************)
Called(name) == \E i \in 1..Len(rn_calls) : rn_calls[i].name = name

RunEnded == rn_status = "done"

\* C11: DIV a, b in an action.  With b = 0 the action returns at the guard:
\* a keeps its value, control is back at the caller with the attributes of
\* the agent as they were (no later instruction of the action has run) and
\* no error is raised; with b # 0 the next line run is the division, after
\* which a * b is the former a and the next instruction of the action runs.
\* When no other behaviour of the agent ran meanwhile, x is at the end what
\* the action divide makes of the x and y of the start.
C11_GuardedDivide ==
    /\ [](rn_status # "error")
    /\ [][ /\ AtLine({"if {arg2} == 0: return"}) =>
                IF Eval(rn_code[rn_pc].args[1]) = 0
                   THEN /\ rn_agent' = rn_agent
                        /\ rn_frames' = Tail(rn_frames)
                        /\ rn_pc' = Head(rn_frames).ret
                        /\ rn_status' = "running"
                   ELSE /\ rn_agent' = rn_agent
                        /\ rn_frames' = rn_frames
                        /\ rn_pc' = rn_pc + 1
                        /\ rn_code[rn_pc'].text = "{arg1} /= {arg2}"
           /\ AtLine({"{arg1} /= {arg2}"}) =>
                /\ rn_agent'[rn_code[rn_pc].args[1]] * Eval(rn_code[rn_pc].args[2])
                       = rn_agent[rn_code[rn_pc].args[1]]
                /\ rn_frames' = rn_frames
                /\ rn_pc' = rn_pc + 1
                /\ rn_code[rn_pc'].indent = rn_code[rn_pc].indent
         ]_vars
    /\ [](RunEnded /\ Called("divide") /\ rn_other = 0 =>
             rn_agent["self.agent.x"] =
                 IF rn_start["self.agent.y"] = 0 THEN rn_start["self.agent.x"]
                 ELSE Quotient(rn_start["self.agent.x"], rn_start["self.agent.y"]) + 1)

C11_Witness ==
    /\ RunEnded
    /\ Called("divide")
    /\ rn_start["self.agent.y"] = 0
    /\ rn_agent["self.agent.x"] = 6
    /\ Len(rn_calls) = 3

\* The receivers the Send statement of an action transmits to.
ReceiversOf(name) ==
    IF name = "tell" THEN << rn_start["self.agent.peer"] >>
    ELSE IF name = "tell_all" THEN rn_start["self.agent.conns"]
    ELSE <<>>

RECURSIVE ReceiversOfCalls(_)
ReceiversOfCalls(calls) ==
    IF calls = <<>> THEN <<>>
    ELSE ReceiversOf(Head(calls).name) \o ReceiversOfCalls(Tail(calls))

SentCount == rn_agent["self.agent.msgSCount"] - rn_start["self.agent.msgSCount"]

\* C12: SEND to a connection transmits one message and adds 1 to msgSCount;
\* SEND to a list of k connections transmits k messages, one per element
\* in list order, and adds k (nothing for an empty list).  While the
\* activation runs the counter is the number of messages transmitted, or
\* one behind between a transmission and its count (run is suspended in the
\* send or stands at the line that counts it); when it has ended the
\* messages transmitted went to the receivers of the Send statements run,
\* in order, and the counter rose by their number.
C12_SendCounts ==
    /\ rn_status \in {"running", "suspended", "done"} =>
           /\ SentCount \in {Len(rn_sent), Len(rn_sent) - 1}
           /\ SentCount = Len(rn_sent) - 1 =>
                  IF rn_status = "suspended" THEN rn_code[rn_pc].text \in SendTexts
                  ELSE /\ rn_status = "running"
                       /\ rn_code[rn_pc].text = "self.agent.msgSCount += 1"
           /\ (rn_status = "suspended" /\ rn_code[rn_pc].text \in SendTexts) =>
                  SentCount = Len(rn_sent) - 1
    /\ RunEnded =>
           /\ [i \in 1..Len(rn_sent) |-> rn_sent[i].to] = ReceiversOfCalls(rn_calls)
           /\ SentCount = Len(rn_sent)

C12_Witness ==
    /\ RunEnded
    /\ Called("tell")
    /\ Called("tell_all")
    /\ Len(rn_start["self.agent.conns"]) = 2
    /\ SentCount = 3

MessageReceived == rn_behaviour.kind = "message_received"

ReceivedCount == rn_agent["self.agent.msgRCount"] - rn_start["self.agent.msgRCount"]

\* C13: an activation of a message-received behaviour makes one receive,
\* before any action.  With no message msgRCount is unchanged, no action
\* is invoked and run completes without another receive; with a message
\* msgRCount is incremented by exactly 1, before the first action, and
\* every action is invoked exactly once, in declaration order, with the
\* decoded message.
C13_ReceiveThenActions ==
    (MessageReceived /\ rn_status \in {"running", "suspended", "done"}) =>
        /\ rn_receives <= 1
        /\ rn_calls # <<>> => rn_receives = 1 /\ ReceivedCount = 1
        /\ \A i \in 1..Len(rn_calls) :
               /\ i <= Len(rn_behaviour.actions)
               /\ rn_calls[i].name = rn_behaviour.actions[i].name
               /\ rn_calls[i].rcv = [kind |-> "dict",
                                     type |-> rn_behaviour.received_message.type,
                                     performative |-> rn_behaviour.received_message.performative,
                                     sender |-> "j9"]
        /\ RunEnded =>
               /\ rn_receives = 1
               /\ IF rn_rcv.kind = "None"
                     THEN ReceivedCount = 0 /\ rn_calls = <<>>
                     ELSE ReceivedCount = 1 /\ Len(rn_calls) = Len(rn_behaviour.actions)

C13_Witness ==
    /\ MessageReceived
    /\ RunEnded
    /\ rn_rcv.kind = "None"
    /\ Len(rn_behaviour.actions) = 2
    /\ rn_calls = <<>>

\* The fields of the Message id of the heap h, by value
ContentIn(h, id) ==
    [ type |-> h[id].type, performative |-> h[id].performative,
      float_params |-> h[h[id].float_params].keys ]

\* The add_message call that was the last one for the pair k
LastAdded(k) ==
    added[CHOOSE i \in 1..Len(added) :
              /\ added[i].key = k
              /\ \A j \in (i+1)..Len(added) : added[j].key # k]

AddedContent(a) ==
    [type |-> a.type, performative |-> a.performative, float_params |-> a.float_params]

\* C14: after any sequence of add_message calls, every pair that was added
\* exists, the State stores exactly one message per distinct pair, the one
\* stored under a pair is the one added last under it, and
\* get_message_instance returns a message with the fields of that one.
C14_LastWriteRetrievable ==
    /\ [](/\ \A i \in 1..Len(added) :
                /\ MessageExists(added[i].type, added[i].performative)
                /\ ContentOf(DictGet(messages, added[i].key)) = AddedContent(LastAdded(added[i].key))
          /\ \A i, j \in 1..Len(messages) : messages[i].key = messages[j].key => i = j
          /\ {messages[i].key : i \in 1..Len(messages)} = {added[i].key : i \in 1..Len(added)})
    /\ [][instances' # instances =>
             LET got == instances'[Len(instances')]
             IN  /\ got.id \notin {messages[i].value : i \in 1..Len(messages)}
                 /\ ContentIn(heap', got.id) = AddedContent(LastAdded(got.key))]_vars

\* A pair was added twice with different fields and an instance of it was
\* taken after the second call.
C14_Witness ==
    \E i, j \in 1..Len(added), n \in 1..Len(instances) :
        /\ i < j
        /\ added[i].key = added[j].key
        /\ AddedContent(added[i]) # AddedContent(added[j])
        /\ instances[n].key = added[j].key
        /\ instances[n].id > DictGet(messages, added[j].key)

\* The objects a message consists of
ObjectsOf(id) == {id, heap[id].float_params}

\* C16: get_message_instance returns a new message that shares no object
\* with the template or with another instance and leaves the State as it
\* was; a change made to an instance changes neither a stored template nor
\* another instance.
C16_IndependentCopies ==
    /\ [](/\ \A m, n \in 1..Len(instances) :
                m # n => ObjectsOf(instances[m].id) \cap ObjectsOf(instances[n].id) = {}
          /\ \A m \in 1..Len(instances), i \in 1..Len(messages) :
                ObjectsOf(instances[m].id) \cap ObjectsOf(messages[i].value) = {})
    /\ [][instances' # instances =>
             /\ messages' = messages
             /\ \A id \in 1..Len(heap) : heap'[id] = heap[id]]_vars
    /\ [][(instances' = instances /\ added' = added) =>
             /\ messages' = messages
             /\ \A i \in 1..Len(messages) :
                    ContentOf(messages[i].value)' = ContentOf(messages[i].value)
             /\ \A m, n \in 1..Len(instances) :
                    (m # n /\ ContentOf(instances[m].id)' # ContentOf(instances[m].id))
                        => ContentOf(instances[n].id)' = ContentOf(instances[n].id)]_vars

\* Two instances of one template, one of them with a float parameter bound
\* since: it differs from the template, the other does not.
C16_Witness ==
    \E m, n \in 1..Len(instances) :
        /\ m # n
        /\ instances[m].key = instances[n].key
        /\ MessageExists(instances[m].key[1], instances[m].key[2])
        /\ "bound" \in ContentOf(instances[m].id).float_params
        /\ ContentOf(instances[n].id) = ContentOf(DictGet(messages, instances[n].key))

\* The step dispatches the line AGENT <name> for a name that is declared.
DuplicateDeclaration ==
    /\ line_num' = line_num + 1
    /\ invoked' = <<"op_AGENT">>
    /\ \E i \in 1..Len(ps_agents) : ps_agents[i].key = tokens'[2]

FixedTokenCount ==
    [op \in {"EAGENT", "EMESSAGE", "EBEHAV", "EACTION", "EBLOCK"} |-> 1]
    @@ [op \in {"AGENT", "CLR", "SEND", "ROUND"} |-> 2]
    @@ [op \in {"MESSAGE", "DECL", "LEN", "SET", "REMEN", "ADDE", "REME", "IN", "NIN"}
                   \cup UnorderedCond \cup OrderedCond \cup MathOps |-> 3]
    @@ [op \in {"SUBS"} |-> 4]

\* The least number of tokens of the lines of the other opcodes.
LeastTokenCount ==
    [op \in {"PRM", "BEHAV", "ACTION"} |-> 3] @@ [op \in {"RAND"} |-> 4]

\* The handler that serves an opcode; PRM has two, the first pattern that
\* matches takes the line.
HandlerOf(t) ==
    LET op == t[1]
    IN  IF op = "PRM" THEN (IF Len(t) = 3 THEN "op_message_PRM" ELSE "op_agent_PRM")
        ELSE IF op \in UnorderedCond THEN "handle_unordered_conditional_statement"
        ELSE IF op \in OrderedCond THEN "handle_ordered_conditional_statement"
        ELSE IF op \in MathOps THEN "handle_math_statement"
        ELSE IF op \in {"ADDE", "REME"} THEN "handle_list_modification"
        ELSE IF op \in {"IN", "NIN"} THEN "handle_list_inclusion"
        ELSE "op_" \o op

WellFormed(t) ==
    \/ t[1] \in DOMAIN FixedTokenCount /\ Len(t) = FixedTokenCount[t[1]]
    \/ t[1] \in DOMAIN LeastTokenCount /\ Len(t) >= LeastTokenCount[t[1]]

UnknownTokensPanic ==
    /\ invoked = <<>>
    /\ outcome = "panic"
    /\ reason = "Unknown tokens: " \o Repr(tokens)

\* C18: for the token list of a line exactly one of two things has happened:
\* one handler was called, the one that serves the opcode, or no handler was
\* called and the parse panicked with "Unknown tokens" and the token list.
\* The second is what happens to a line whose opcode is unknown and to a line
\* of a fixed-arity opcode with another number of arguments.
C18_DispatchOutcome ==
    tokens # <<>> =>
        /\ \/ /\ invoked = <<HandlerOf(tokens)>>
              /\ WellFormed(tokens)
              /\ reason # "Unknown tokens: " \o Repr(tokens)
           \/ UnknownTokensPanic
        /\ tokens[1] \notin Opcodes => UnknownTokensPanic
        /\ (tokens[1] \in DOMAIN FixedTokenCount /\ Len(tokens) # FixedTokenCount[tokens[1]])
               => UnknownTokensPanic

\* SUBS with two arguments, inside an action, was refused at the dispatch.
C18_Witness ==
    /\ tokens = <<"SUBS", "a", "a">>
    /\ in_action
    /\ UnknownTokensPanic
    /\ reason = "Unknown tokens: ['SUBS', 'a', 'a']"

\* What the handler called for the token list t requires of the State.
RequirementOf(t) ==
    LET h == Handler(t)
    IN  IF h = "op_AGENT" THEN NoContextOpen /\ ~AgentExists(t[2])
        ELSE IF h = "op_MESSAGE" THEN NoContextOpen
        ELSE IF h \in {"op_EAGENT", "op_BEHAV", "op_agent_PRM"} THEN in_agent /\ ~in_behaviour
        ELSE IF h \in {"op_EMESSAGE", "op_message_PRM"} THEN in_message
        ELSE IF h \in {"op_EBEHAV", "op_ACTION"} THEN in_behaviour /\ ~in_action
        ELSE in_action

\* C19: a panic is raised with its reason and ends the compilation: once it
\* is raised nothing of the State changes any more, so no later line is
\* counted or dispatched, no ParsedData and no Code is returned; a Code is
\* returned only after parse_lines has returned the ParsedData.  A handler's
\* require panics exactly if what it requires does not hold, and a require
\* that holds leaves outcome and reason alone.
C19_PanicAborts ==
    /\ [](reason # "" <=> outcome = "panic")
    /\ [](outcome = "panic" => ~code)
    /\ [](code => (outcome = "parsed" /\ ended))
    /\ [][outcome = "panic" => UNCHANGED parseVars]_vars
    /\ [][(line_num' = line_num + 1 /\ invoked' # <<>>) =>
             /\ (outcome' = "panic") <=> ~RequirementOf(tokens')
             /\ (outcome' = "panic") =>
                    UNCHANGED <<in_agent, in_message, in_behaviour, in_action, in_graph,
                                ps_agents, ended, code>>
             /\ (outcome' # "panic") => (outcome' = "parsing" /\ reason' = "")]_vars

\* An EBEHAV on the second line, with no behaviour open, raised the panic
\* while lines were left to process.
C19_Witness ==
    /\ outcome = "panic"
    /\ line_num = 2
    /\ line_num < MaxLines
    /\ tokens = <<"EBEHAV">>
    /\ in_agent
    /\ reason = "Not inside any behaviour or an action is still open"

\* The text of the line before its first "#"
TextOf(line) ==
    LET hashes == {i \in 1..Len(line) : line[i] = "#"}
    IN  IF hashes = {} THEN line
        ELSE SubSeq(line, 1, (CHOOSE i \in hashes : \A j \in hashes : i <= j) - 1)

IsSeparator(c) == c = "," \/ IsSpace(c)

\* The maximal runs of characters of u that are no separators, each as
\* <<first, last>>
RunsOf(u) ==
    { r \in (1..Len(u)) \X (1..Len(u)) :
        /\ r[1] <= r[2]
        /\ \A k \in r[1]..r[2] : ~IsSeparator(u[k])
        /\ r[1] = 1 \/ IsSeparator(u[r[1] - 1])
        /\ r[2] = Len(u) \/ IsSeparator(u[r[2] + 1]) }

\* tok is src in upper case
InUpperCase(tok, src) ==
    /\ Len(tok) = Len(src)
    /\ \A i \in 1..Len(src) : tok[i] = (IF src[i] = "a" THEN "A" ELSE src[i])

\* C17: the tokens built for a line are the maximal separator-free runs of
\* the text before its first "#", a comma being a separator like whitespace,
\* in their order; the first is in upper case and the others are as written;
\* they are yielded exactly if there is one; all this whatever line was
\* processed before.
C17_TokensOfLine ==
    LET u == TextOf(tk_line)
        runs == RunsOf(u)
    IN  /\ tk_num > 0 => tk_line = tk_lines[tk_num]
        /\ Len(tk_tokens) = Cardinality(runs)
        /\ \A k \in 1..Len(tk_tokens) :
               LET r == CHOOSE r \in runs : Cardinality({q \in runs : q[1] < r[1]}) = k - 1
               IN  /\ tk_tokens[k] # <<>>
                   /\ IF k = 1 THEN InUpperCase(tk_tokens[k], SubSeq(u, r[1], r[2]))
                               ELSE tk_tokens[k] = SubSeq(u, r[1], r[2])
        /\ tk_yielded <=> tk_tokens # <<>>
        /\ (\A i \in 1..Len(u) : IsSeparator(u[i])) => ~tk_yielded

\* After a line "B", the line "a,a#" gave the tokens A and a.
C17_Witness ==
    /\ tk_lines = << <<"B">>, <<"a", ",", "a", "#">> >>
    /\ tk_line = <<"a", ",", "a", "#">>
    /\ tk_tokens = << <<"A">>, <<"a">> >>
    /\ tk_yielded

\* The behaviours of an agent in the order of the claim: setup, one-time,
\* cyclic, message-received, each variant in declaration order.
DeclaredBehaviours(agent) ==
    agent.setup_behaviours \o agent.one_time_behaviours
        \o agent.cyclic_behaviours \o agent.message_received_behaviours

\* The spade class and the add_behaviour call a behaviour is to get.
ExpectedClass(b) ==
    << b.name,
       IF b.kind = "setup" THEN "spade.behaviour.OneShotBehaviour"
       ELSE IF b.kind = "one_time" THEN "spade.behaviour.TimeoutBehaviour"
       ELSE IF b.kind = "cyclic" THEN "spade.behaviour.PeriodicBehaviour"
       ELSE "spade.behaviour.CyclicBehaviour" >>

ExpectedRegistration(b) ==
    IF b.kind = "setup" THEN
        [text |-> "self.add_behaviour(self.{setup_behaviour.name}(), {setup_behaviour.name}_template)",
         args |-> <<b.name, b.name>>]
    ELSE IF b.kind = "one_time" THEN
        [text |-> "self.add_behaviour(self.{one_time_behaviour.name}(start_at=datetime.datetime.now() + datetime.timedelta(seconds={one_time_behaviour.delay})), {one_time_behaviour.name}_template)",
         args |-> <<b.name, b.delay, b.name>>]
    ELSE IF b.kind = "cyclic" THEN
        [text |-> "self.add_behaviour(self.{cyclic_behaviour.name}(period={cyclic_behaviour.period}), {cyclic_behaviour.name}_template)",
         args |-> <<b.name, b.period, b.name>>]
    ELSE
        [text |-> "self.add_behaviour(self.{message_received_behaviour.name}(), {message_received_behaviour.name}_template)",
         args |-> <<b.name, b.name>>]

\* The lines that build the template of a behaviour, as they are to stand
\* right before its add_behaviour call.
ExpectedTemplate(b) ==
    IF b.kind = "message_received" THEN
        << [text |-> "{message_received_behaviour.name}_template = spade.template.Template()",
            args |-> <<b.name>>],
           [text |-> "{message_received_behaviour.name}_template.set_metadata(\"type\", \"{message_received_behaviour.received_message.type}\")",
            args |-> <<b.name, b.received_message.type>>],
           [text |-> "{message_received_behaviour.name}_template.set_metadata(\"performative\", \"{message_received_behaviour.received_message.performative}\")",
            args |-> <<b.name, b.received_message.performative>>] >>
    ELSE
        << [text |-> "{behaviour_name}_template = spade.template.Template()", args |-> <<b.name>>],
           [text |-> "{behaviour_name}_template.set_metadata(\"reserved\", \"no_message_match\")",
            args |-> <<b.name>>] >>

\* The emitted lines with their place: the agent class and the member of it
\* (a def or a class at indentation 1) they belong to.
PlacedLines ==
    LET L == agent_code_lines
        Last(S) == CHOOSE j \in S : \A k \in S : k <= j
        Owner(i) ==
            LET starts == {j \in 1..i : L[j].indent = 0
                                        /\ L[j].text = "class {agent.name}(spade.agent.Agent):"}
            IN  IF starts = {} THEN "" ELSE L[Last(starts)].args[1]
        Member(i) ==
            LET heads == {j \in 1..i : L[j].indent = 1 /\ L[j].text # ""}
            IN  IF heads = {} THEN "" ELSE L[Last(heads)].text
    IN  [i \in 1..Len(L) |->
            [indent |-> L[i].indent, text |-> L[i].text, args |-> L[i].args,
             owner |-> Owner(i), member |-> Member(i), at |-> i]]

IsBehaviourClass(l) ==
    l.indent = 1 /\ l.text = "class {behaviour.name}({behaviour_type}):"

IsRegistration(l) ==
    /\ l.indent = 2
    /\ l.member = "def setup(self):"
    /\ \E k \in {"setup", "one_time", "cyclic", "message_received"} :
           l.text = ExpectedRegistration([name |-> "", kind |-> k, delay |-> "", period |-> ""]).text

\* C20: in the code returned, the behaviour classes of every agent are those
\* of its declared behaviours, one each, in the order setup, one-time,
\* cyclic, message-received and declaration order within a variant, each
\* extending the spade class of its variant; the add_behaviour calls of its
\* setup are one per behaviour in the same order, a setup behaviour without
\* arguments, a one-time behaviour with start_at = now + delay, a cyclic one
\* with its period; and each call stands right after the lines of its
\* template: one on the (type, performative) of the received message for a
\* message-received behaviour, the no-match template for the others.
C20_BehaviourClassesAndRegistrations ==
    em_pc = "done" =>
        \A n \in 1..Len(em_agents) :
            LET agent == em_agents[n]
                declared == DeclaredBehaviours(agent)
                IsClassOfAgent(l) == l.owner = agent.name /\ IsBehaviourClass(l)
                IsRegistrationOfAgent(l) == l.owner = agent.name /\ IsRegistration(l)
                classes == SelectSeq(PlacedLines, IsClassOfAgent)
                registrations == SelectSeq(PlacedLines, IsRegistrationOfAgent)
            IN  /\ [k \in 1..Len(classes) |-> classes[k].args]
                       = [k \in 1..Len(declared) |-> ExpectedClass(declared[k])]
                /\ [k \in 1..Len(registrations) |->
                       [text |-> registrations[k].text, args |-> registrations[k].args]]
                       = [k \in 1..Len(declared) |-> ExpectedRegistration(declared[k])]
                /\ \A k \in 1..Len(registrations) :
                       LET template == ExpectedTemplate(declared[k])
                           first == registrations[k].at - Len(template)
                       IN  \A j \in 1..Len(template) :
                               /\ agent_code_lines[first + j - 1].text = template[j].text
                               /\ agent_code_lines[first + j - 1].args = template[j].args
                               /\ agent_code_lines[first + j - 1].indent = 2

\* The code of an agent with two setup behaviours, declared s2 before s1, a
\* one-time, a cyclic and a message-received behaviour has been returned.
C20_Witness ==
    /\ em_pc = "done"
    /\ Len(em_agents) = 1
    /\ Len(em_agents[1].setup_behaviours) = 2
    /\ em_agents[1].setup_behaviours[1].name = "s2"
    /\ Len(em_agents[1].one_time_behaviours) = 1
    /\ Len(em_agents[1].cyclic_behaviours) = 1
    /\ Len(em_agents[1].message_received_behaviours) = 1
    /\ \E i \in 1..Len(agent_code_lines) :
           /\ agent_code_lines[i].text =
                  "self.add_behaviour(self.{message_received_behaviour.name}(), {message_received_behaviour.name}_template)"
           /\ agent_code_lines[i].args = <<"m1", "m1">>

\* C22: after any sequence of add_message calls State.last_message is the
\* message passed to the most recent call, also when its (type,
\* performative) pair had been added before and another pair since.
C22_LastIsMostRecent ==
    added # <<>> => LastMessage = added[Len(added)].id

\* C25: a diagnostic raised while the tokens of a processed line are
\* dispatched is placed at that line. line_num counts every processed line,
\* blank and comment-only ones too, so it is the index of the line the
\* dispatched tokens came from; the place is the preprocessor's mapping of
\* that index: the directive and its declaration line if the mapping names a
\* directive, otherwise the original line number with the stripped text of
\* the processed line.
C25_DiagnosticPlace ==
    /\ [](tk_yielded =>
            /\ tk_num \in 1..Len(tk_lines)
            /\ tk_tokens = TokensOf(tk_lines[tk_num])
            /\ tk_tokens # <<>>)
    /\ [][/\ tk_num' \in {tk_num, tk_num + 1}
          /\ tk_num' = tk_num + 1 => tk_line' = tk_lines[tk_num + 1]]_vars
    /\ [](tk_place # NoPlace =>
            LET at == tk_map[tk_num]
            IN  /\ tk_yielded
                /\ at.data # "" =>
                      tk_place = [kind |-> "directive", data |-> at.data, line |-> at.line]
                /\ at.data = "" =>
                      tk_place = [kind |-> "line", line |-> at.line,
                                  text |-> Strip(tk_lines[tk_num])])

\* A diagnostic was raised at the second processed line, which follows a line
\* without tokens, has blanks around its text and maps to another original
\* line.
C25_Witness ==
    /\ tk_place # NoPlace
    /\ tk_place.kind = "line"
    /\ tk_num = 2
    /\ TokensOf(tk_lines[1]) = <<>>
    /\ tk_place.line # 2
    /\ tk_place.text # tk_lines[2]

\* The classes of statement PythonSpadeCode.add_block has a case for.
TranslatedKinds ==
    {"Block", "Declaration", "Subset", "Clear", "Send", "Set", "Round", "UniformDist",
     "NormalDist", "ExpDist", "Add", "Subtract", "Multiply", "Divide", "AddElement",
     "RemoveElement", "IfInList", "IfNotInList", "Length", "RemoveNElements"}
        \cup DOMAIN Comparisons

\* The statements of a block, those of its nested blocks included.
RECURSIVE StatementsOf(_)
StatementsOf(block) ==
    IF block = <<>> THEN <<>>
    ELSE (IF Head(block).op = "Block"
             THEN <<Head(block)>> \o StatementsOf(Head(block).statements)
             ELSE <<Head(block)>>)
         \o StatementsOf(Tail(block))

BehavioursOf(agent) ==
    agent.setup_behaviours \o agent.one_time_behaviours
        \o agent.cyclic_behaviours \o agent.message_received_behaviours

\* Some action of the agents holds a statement of a class without a case.
UntranslatedStatement ==
    \E n \in 1..Len(em_agents) :
        \E b \in 1..Len(BehavioursOf(em_agents[n])) :
            \E a \in 1..Len(BehavioursOf(em_agents[n])[b].actions) :
                LET all == StatementsOf(BehavioursOf(em_agents[n])[b].actions[a].main_block)
                IN  \E k \in 1..Len(all) : all[k].op \notin TranslatedKinds

\* The graph is of a class without a case, or a statistical graph one of
\* whose agent types has an amount or a connection amount of such a class.
UntranslatedGraph ==
    \/ em_graph.kind \notin {"none", "statistical", "matrix"}
    \/ /\ em_graph.kind = "statistical"
       /\ \E k \in 1..Len(em_graph.g.agents) :
             \/ em_graph.g.agents[k].amount.kind \notin {"const", "percent"}
             \/ em_graph.g.agents[k].connections.kind \notin {"const", "normal", "exp", "uniform"}

\* C23: when the IR holds a variant the engine has no translation for (a
\* statement class in add_block; a graph class, agent-amount class or
\* connection-amount class in PythonGraph), generation fails: it never
\* returns code in which the variant was skipped.
C23_UntranslatedVariantFails ==
    (UntranslatedStatement \/ UntranslatedGraph) => em_pc # "done"

\* The calls still to be made once the first k agents have been generated.
RestAfterAgent(k) ==
    Flatten([j \in 1..(Len(em_agents) - k) |->
                <<AddNewline, AddNewline>> \o GenerateAgent(em_agents[k + j])])

\* The emitter has just returned from generate_agent.
AfterAgentUnit ==
    /\ em_pc = "spade"
    /\ em_agents # <<>>
    /\ em_ops = <<>> \/ Head(em_ops) = AddNewline
    /\ \E k \in 1..Len(em_agents) : em_ops = RestAfterAgent(k)

\* The emitter has just returned from generate_graph.
AfterGraphFunction == em_pc \in {"graph", "done"} /\ em_ops = <<>>

\* The header lines of the conditional and loop statements.
HeaderTexts ==
    {Comparisons[op] : op \in DOMAIN Comparisons}
        \cup {"if {arg2} in {arg1}:", "if {arg2} not in {arg1}:"}

\* C24: the indentation level of the emitter is never negative while it
\* generates, it is 0 after each agent and after the graph function, and
\* the line after the header of a conditional or loop is one level deeper
\* than the header, for every IR: agents with behaviours of the four kinds
\* with and without actions, send and other actions, empty and nested
\* blocks, every kind of statement, both graphs and their early return.
C24_IndentationBalanced ==
    /\ indent >= 0
    /\ AfterAgentUnit => indent = 0
    /\ AfterGraphFunction => indent = 0
    /\ (em_pc = "spade" /\ em_ops = <<>>) =>
          \A i \in 1..(Len(code_lines) - 1) :
              code_lines[i].text \in HeaderTexts =>
                  code_lines[i + 1].indent = code_lines[i].indent + 1

\* The agent with the action holding every kind of statement has been
\* generated: its innermost empty block stands six levels deep, three
\* below the outermost header, and the level is 0 again.
C24_Witness ==
    /\ AfterAgentUnit
    /\ em_ops = <<>>
    /\ indent = 0
    /\ \E i \in 3..Len(code_lines) :
          /\ code_lines[i].text = "..."
          /\ code_lines[i].indent = 6
          /\ code_lines[i - 1].text = "if {arg2} in {arg1}:"
          /\ code_lines[i - 1].indent = 5
    /\ \E i \in 1..Len(code_lines) : code_lines[i].text = "for receiver in {receivers}:"
    /\ \E i \in 1..Len(code_lines) : code_lines[i].text = "return"

\* The lines of a call, in order, whose text is t.
LinesWithText(lines, t) == SelectSeq(lines, LAMBDA l : l.text = t)

\* C26: generation does not change the IR. Whatever statement a call of
\* get_spade_code is at, every list object of the ParsedData (the values
\* of the enum parameter, the row of every agent of the matrix graph) holds
\* what it held before the first call: the lists the generators append to
\* and rebind are other objects. So the second call on the same ParsedData
\* returns the lines the first returned, and the indx_sets lines of a call
\* are those of the rows as they were parsed.
C26_IrNotMutated ==
    /\ Len(ir_heap) >= Len(ir_start)
    /\ \A id \in 1..Len(ir_start) : ir_heap[id] = ir_start[id]
    /\ \A name \in DOMAIN ir_locals : ir_locals[name].ref \notin 1..Len(ir_start)
    /\ Len(ir_codes) = 2 => ir_codes[2] = ir_codes[1]
    /\ \A c \in 1..Len(ir_codes) :
          LinesWithText(ir_codes[c], "indx_sets.append({adj_indx})")
              = [k \in 1..NumRows |->
                    AddLineF("indx_sets.append({adj_indx})", <<ToString(AdjIndx(ir_start[RowId(k)]))>>)]

\* The second call has returned, for an enum parameter of two values and a
\* matrix graph of two types whose rows both hold a 1: both calls appended
\* to lists and built index lists, all of them objects of their own.
C26_Witness ==
    /\ ir_pc = "returned"
    /\ Len(ir_codes) = 2
    /\ Len(ir_start[EnumValuesId]) = 2
    /\ NumRows = 2
    /\ \A k \in 1..2 : \E i \in 1..2 : ir_start[RowId(k)][i] = 1
    /\ Len(ir_heap) = Len(ir_start) + 2 * (2 + 2 * NumRows)
    /\ \E l \in 1..Len(ir_codes[2]) :
          /\ Len(ir_codes[2][l].args) = 4
          /\ ir_codes[2][l].args[3] = "[\"a\", \"b\"]"

\* The objects the agent holds: its message m and the elements of msgs.
ObjectIds(agent) ==
    {agent["self.agent.m"].id}
        \cup {agent["self.agent.msgs"][i].id : i \in 1..Len(agent["self.agent.msgs"])}

\* C21: SET msg, message-list in an action.  If no element of the list has
\* the type and the performative of msg, the action returns at once: msg and
\* every other attribute keep their values and no later instruction of the
\* action runs.  Otherwise msg becomes a new object whose body equals that of
\* an element with that type and performative, and the next instruction
\* runs.  The list is the same in both cases, and no error is raised.
C21_GuardedLookup ==
    /\ [](rn_status # "error" /\ (rn_status # "parked" => rn_agent["self.agent.msgs"] = rn_start["self.agent.msgs"]))
    /\ [][ /\ AtLine({IfFilterText}) =>
                /\ rn_agent' = rn_agent
                /\ rn_frames' = rn_frames
                /\ rn_code[rn_pc'].text =
                      IF Filtered(Eval(rn_code[rn_pc].args[1]), Eval(rn_code[rn_pc].args[3])) = {}
                         THEN "return" ELSE ChoiceText
           /\ AtLine({"return"}) =>
                /\ rn_agent' = rn_agent
                /\ rn_frames' = Tail(rn_frames)
                /\ rn_pc' = Head(rn_frames).ret
           /\ AtLine({ChoiceText}) =>
                LET msg == rn_code[rn_pc].args[1]
                    list == rn_agent["self.agent.msgs"]
                IN  /\ \E i \in Filtered(rn_agent[msg], list) : rn_agent'[msg].body = list[i].body
                    /\ rn_agent'[msg].id \notin ObjectIds(rn_agent)
                    /\ \A a \in DOMAIN rn_agent : a # msg => rn_agent'[a] = rn_agent[a]
         ]_vars
    /\ [](RunEnded /\ Called("pick") =>
             IF Filtered(rn_start["self.agent.m"], rn_start["self.agent.msgs"]) = {}
                THEN /\ rn_agent["self.agent.m"] = rn_start["self.agent.m"]
                     /\ rn_agent["self.agent.w"] = 0
                ELSE /\ \E i \in Filtered(rn_start["self.agent.m"], rn_start["self.agent.msgs"]) :
                           rn_agent["self.agent.m"].body = rn_start["self.agent.msgs"][i].body
                     /\ rn_agent["self.agent.m"].id \notin ObjectIds(rn_start)
                     /\ rn_agent["self.agent.w"] = 1)

\* The list held two messages of the type and performative of msg and one
\* of another performative; the action made msg a copy of the second of the
\* two, and the instruction after the lookup ran.
C21_Witness ==
    /\ RunEnded
    /\ Called("pick")
    /\ Len(rn_start["self.agent.msgs"]) = 3
    /\ rn_agent["self.agent.m"].body = rn_start["self.agent.msgs"][3].body
    /\ rn_agent["self.agent.m"].id = 5
    /\ rn_agent["self.agent.w"] = 1

\* The list held no message of the type and performative of msg, and the
\* action after pick was called all the same.
C21_NoMatchReached ==
    /\ RunEnded
    /\ Len(rn_calls) >= 2
    /\ rn_calls[1].name = "pick"
    /\ Len(rn_start["self.agent.msgs"]) = 2
    /\ rn_agent["self.agent.m"] = rn_start["self.agent.m"]

\* What an action does to the attributes of the agent, as its statements
\* read: the division is skipped with the rest of the action when the
\* divisor is 0, an element is added to a list only if the list lacks it.
AttributesAfter(name, agent) ==
    IF name = "divide"
        THEN IF agent["self.agent.y"] = 0 THEN agent
             ELSE [agent EXCEPT !["self.agent.x"] = Quotient(@, agent["self.agent.y"]) + 1]
    ELSE IF name \in {"collect", "gather"}
        THEN LET elem == IF name = "collect" THEN 2 ELSE agent["self.agent.y"]
             IN  [agent EXCEPT !["self.agent.l"] =
                     IF \E i \in 1..Len(@) : @[i] = elem THEN @ ELSE Append(@, elem)]
    ELSE [agent EXCEPT !["self.agent.z"] = 2 * agent["self.agent.x"] - 1]

RECURSIVE AttributesAfterCalls(_, _)
AttributesAfterCalls(calls, agent) ==
    IF calls = <<>> THEN agent
    ELSE AttributesAfterCalls(Tail(calls), AttributesAfter(Head(calls).name, agent))

\* A statement of each kind in Comparisons and of Add, Subtract, Multiply
\* and Set, and a header with a nested empty block.
PlainStatements ==
    {[op |-> op, arg1 |-> Arg("x", {"AgentParam", "Float"}), arg2 |-> a2] :
        op \in DOMAIN Comparisons \cup {"Add", "Subtract", "Multiply", "Set"},
        a2 \in {Arg("1", {"Float"}), Arg("e", {"EnumValue"}), Arg("y", {"AgentParam", "Float"})}}

\* C27: the statements SpadeCode.add_block emits have the run-time effect of
\* those PythonSpadeCode.add_block emits.  For the comparisons, Add,
\* Subtract, Multiply, Set and a nested Block the two emit the same lines;
\* an activation of the class of either emitter raises no error and leaves
\* the attributes of the agent as the called actions say, with the return
\* on a zero divisor of Divide and the add-only-if-absent of AddElement.
C27_EmittersAgree ==
    /\ \A stmt \in PlainStatements :
          SpadeAddBlock(<<stmt, [op |-> "Block", statements |-> <<>>]>>)
              = AddBlock(<<stmt, [op |-> "Block", statements |-> <<>>]>>)
    /\ rn_status # "error"
    /\ RunEnded => rn_agent = AttributesAfterCalls(rn_calls, rn_start)

\* The same, of the class PythonSpadeCode emits only.
C27_PythonSpadeCodeEffect ==
    rn_emitter = "PythonSpadeCode" =>
        /\ rn_status # "error"
        /\ RunEnded => rn_agent = AttributesAfterCalls(rn_calls, rn_start)

\* The first conjunct of C27_EmittersAgree alone.
C27_SameLines ==
    \A stmt \in PlainStatements :
        SpadeAddBlock(<<stmt, [op |-> "Block", statements |-> <<>>]>>)
            = AddBlock(<<stmt, [op |-> "Block", statements |-> <<>>]>>)

=============================================================================
